---- MODULE Spec2Model ----
(***************************************************************************)
(* Battery-Pack-Simulator: the AFE measurement wrapper                     *)
(* (src/pc_simulator/afe/wrapper.py) as a state machine.                   *)
(*                                                                         *)
(* Representation.                                                         *)
(*  - Physical quantities are integers in hundredths of their unit:        *)
(*    voltages in 0.01 mV, temperatures in 0.01 degC (= centi-degC),       *)
(*    currents in 0.01 mA.  So 3200.12 mV is 320012 and the 0.1 mV ADC     *)
(*    step is 10.  Gains are in 1/1000 (1.001 is 1001), probabilities and  *)
(*    uniform variates in 1/1000, standard-normal variates in 1/10.        *)
(*  - A Python int used as a bitmask is the set of the positions of its    *)
(*    1-bits: x | y is x \cup y, x & ~y is x \ y, x & (1 << i) is          *)
(*    i \in x, and 0 is {}.                                                *)
(*  - Python None is NoneT (-1) for a time, a duration or a start time,    *)
(*    and NoneMask ({-1}) for a cell mask.                                 *)
(*  - A dict of the fault schedule is a record; "k in d" is                *)
(*    "k" \in DOMAIN d.                                                    *)
(*  - The draws of numpy's generator are arguments of the operators that   *)
(*    consume them, so that a specification may take them from a set of    *)
(*    samples or from a modelled generator.                                *)
(***************************************************************************)
EXTENDS Integers, Sequences, FiniteSets, TLC

VARIABLES
    clock,       \* time.time() * 1000.0 of the process, in ms
    afe,         \* the AFEWrapper instance: a record of its attributes
    ret,         \* the tuple returned by the latest apply_measurement
    call,        \* the arguments and draws of the latest apply_measurement
    hist,        \* history of the run (what the claims speak about)
    clockB,      \* a second execution of the same call sequence: its clock
    afeB,        \* ... its AFEWrapper instance
    retB,        \* ... and the tuple its latest apply_measurement returned
    np_random,   \* state of numpy's process-wide generator (np.random)
    own_random,  \* state a generator owned by the instance alone would have
    cell,        \* a LiFePO4Cell instance: a record of its attributes
    cellB,       \* a second LiFePO4Cell, the reference of a comparison
    pack,        \* a BatteryPack16S instance
    packB,       \* a second BatteryPack16S driven by the same update calls
    plant,       \* the latest plant call, what it returned, and the calls made
    profile,     \* a CurrentProfile instance and what its getters returned
    tx,          \* a UARTTransmitter instance, its threads and its callers
    frame        \* a byte string and what AFEMeasFrame.decode makes of it

afeVars ==
    <<clock, afe, ret, call, hist, clockB, afeB, retB, np_random, own_random>>
plantVars == <<cell, cellB, pack, packB, plant>>
commVars == <<profile, tx, frame>>
vars == <<afeVars, plantVars, commVars>>

\* No plant object is constructed.
NoPlant ==
    /\ cell = 0
    /\ cellB = 0
    /\ pack = 0
    /\ packB = 0
    /\ plant = 0

\* No current profile, transmitter or frame is constructed.
NoComm ==
    /\ profile = 0
    /\ tx = 0
    /\ frame = 0

NoneT == 0 - 1
NoneMask == {-1}

----------------------------------------------------------------------------
(* Class constants of AFEWrapper.                                          *)

NUM_CELLS == 16
Cells == 0 .. (NUM_CELLS - 1)

VOLTAGE_RESOLUTION_MV == 10
TEMPERATURE_RESOLUTION_C == 10
CURRENT_RESOLUTION_MA == 100

DEFAULT_VOLTAGE_NOISE_MV == 200
DEFAULT_TEMP_NOISE_C == 50
DEFAULT_CURRENT_NOISE_MA == 5000

DEFAULT_VOLTAGE_GAIN_ERROR == 1
DEFAULT_VOLTAGE_OFFSET_MV == 500
DEFAULT_TEMP_OFFSET_C == 100
DEFAULT_CURRENT_GAIN_ERROR == 2
DEFAULT_CURRENT_OFFSET_MA == 1000

INVALID_VOLTAGE_MV == 0
INVALID_TEMP_C == -32768
INVALID_CURRENT_MA == 0

VOLTAGE_CLIP_MAX_MV == 655350
NTC_INVALID_THRESHOLD == -32000
CURRENT_SENSOR_BIT == 30
CRC_ERROR_BIT == 31
INT16_MIN == -32768
INT16_MAX == 32767

(* class FaultType(Enum): the values of the enumeration.                   *)
OPEN_WIRE == "open_wire"
STUCK_ADC == "stuck_adc"
NTC_OPEN == "ntc_open"
NTC_SHORT == "ntc_short"
CURRENT_SENSOR_FAULT == "current_sensor_fault"
CRC_ERROR == "crc_error"
FaultType == {OPEN_WIRE, STUCK_ADC, NTC_OPEN, NTC_SHORT,
              CURRENT_SENSOR_FAULT, CRC_ERROR}

----------------------------------------------------------------------------
(* Arithmetic of the measurement chain.                                    *)

\* np.round / Python round: x / q rounded to the nearest integer, ties to even.
RoundHalfEven(x, q) ==
    LET f == x \div q
        r == x % q
    IN  IF 2 * r < q THEN f
        ELSE IF 2 * r > q THEN f + 1
        ELSE IF f % 2 = 0 THEN f ELSE f + 1

\* value * gain, the gain in 1/1000 (computed as x + x * (gain - 1), which
\* keeps the products small).
ApplyGain(x, gain) == x + RoundHalfEven(x * (gain - 1000), 1000)

\* np.clip(x, lo, hi)
Clip(x, lo, hi) == IF x < lo THEN lo ELSE IF x > hi THEN hi ELSE x

\* np.random.uniform(lo, hi) for the variate u in [0, 1), u in 1/1000.
Uniform(lo, hi, u) == lo + ((hi - lo) * u) \div 1000

\* np.random.normal(loc, scale) for the standard-normal variate z, z in 1/10.
Normal(loc, scale, z) == loc + RoundHalfEven(scale * z, 10)

\* ndarray.astype(np.int16) of an integral float.  Inside the int16 range the
\* value is kept.  Outside it the C conversion is undefined: the builds either
\* reduce modulo 2^16 (convert to a wider integer, keep the low 16 bits) or
\* saturate; cast names the outcome of the build.
Wrap16(x) == ((x - INT16_MIN) % 65536) + INT16_MIN
AsInt16(x, cast) ==
    IF x >= INT16_MIN /\ x <= INT16_MAX THEN x
    ELSE IF cast = "wrap" THEN Wrap16(x)
    ELSE Clip(x, INT16_MIN, INT16_MAX)
CastOutcomes == {"wrap", "saturate"}

----------------------------------------------------------------------------
(* AFEWrapper.__init__: noise and calibration configuration, the           *)
(* per-channel calibration drawn from the generator (u: the uniform        *)
(* variates, in the order the constructor draws them), and the dynamic     *)
(* state.                                                                  *)

DefaultNoiseConfig ==
    [voltage_noise_mv |-> DEFAULT_VOLTAGE_NOISE_MV,
     temp_noise_c |-> DEFAULT_TEMP_NOISE_C,
     current_noise_ma |-> DEFAULT_CURRENT_NOISE_MA]
DefaultCalibrationErrors ==
    [voltage_gain_error |-> DEFAULT_VOLTAGE_GAIN_ERROR,
     voltage_offset_mv |-> DEFAULT_VOLTAGE_OFFSET_MV,
     temp_offset_c |-> DEFAULT_TEMP_OFFSET_C,
     current_gain_error |-> DEFAULT_CURRENT_GAIN_ERROR,
     current_offset_ma |-> DEFAULT_CURRENT_OFFSET_MA]
\* The configuration of the quantization tests: no noise, no calibration error.
ZeroNoiseConfig ==
    [voltage_noise_mv |-> 0, temp_noise_c |-> 0, current_noise_ma |-> 0]
ZeroCalibrationErrors ==
    [voltage_gain_error |-> 0, voltage_offset_mv |-> 0, temp_offset_c |-> 0,
     current_gain_error |-> 0, current_offset_ma |-> 0]

AFEWrapper(noise_config, calibration_errors, u) ==
    [voltage_noise_mv |-> noise_config.voltage_noise_mv,
     temp_noise_c |-> noise_config.temp_noise_c,
     current_noise_ma |-> noise_config.current_noise_ma,
     voltage_gain_errors |->
        [i \in Cells |-> Uniform(1000 - calibration_errors.voltage_gain_error,
                                 1000 + calibration_errors.voltage_gain_error,
                                 u.voltage_gain[i])],
     voltage_offsets_mv |->
        [i \in Cells |-> Uniform(0 - calibration_errors.voltage_offset_mv,
                                 calibration_errors.voltage_offset_mv,
                                 u.voltage_offset[i])],
     temp_offsets_c |->
        [i \in Cells |-> Uniform(0 - calibration_errors.temp_offset_c,
                                 calibration_errors.temp_offset_c,
                                 u.temp_offset[i])],
     current_gain_error |->
        Uniform(1000 - calibration_errors.current_gain_error,
                1000 + calibration_errors.current_gain_error, u.current_gain),
     current_offset_ma |->
        Uniform(0 - calibration_errors.current_offset_ma,
                calibration_errors.current_offset_ma, u.current_offset),
     open_wire_mask |-> {},
     stuck_adc_mask |-> {},
     stuck_adc_values |-> [i \in Cells |-> 0],
     ntc_fault_mask |-> {},
     current_sensor_fault |-> FALSE,
     crc_error_rate |-> 0,
     fault_schedule |-> << >>,
     start_time_ms |-> NoneT,
     status_flags |-> {},
     measurement_count |-> 0,
     crc_error_count |-> 0]

----------------------------------------------------------------------------
(* Fault management.                                                       *)

\* AFEWrapper._get_current_time_ms, the clock reading now.
_get_current_time_ms(a, now) ==
    IF a.start_time_ms = NoneT THEN 0 ELSE now - a.start_time_ms

\* AFEWrapper.start_simulation
start_simulation(a, now) == [a EXCEPT !.start_time_ms = now]

\* inject_fault without the scheduling of the clearing.
InjectFaultNoExpiry(a, fault_type, cell_mask, duration_ms, now) ==
    IF fault_type = OPEN_WIRE
      THEN [a EXCEPT !.open_wire_mask = @ \cup cell_mask]
    ELSE IF fault_type = STUCK_ADC
      THEN [a EXCEPT !.stuck_adc_mask = @ \cup cell_mask]
    ELSE IF fault_type = NTC_OPEN \/ fault_type = NTC_SHORT
      THEN [a EXCEPT !.ntc_fault_mask = @ \cup cell_mask]
    ELSE IF fault_type = CURRENT_SENSOR_FAULT
      THEN [a EXCEPT !.current_sensor_fault = TRUE]
    ELSE a

\* AFEWrapper.inject_fault, for a fault type of the enumeration and, for a
\* per-cell kind, a cell mask; now is the clock when the clearing is scheduled.
inject_fault(a, fault_type, cell_mask, duration_ms, now) ==
    LET a1 ==
          IF fault_type = OPEN_WIRE
            THEN [a EXCEPT !.open_wire_mask = @ \cup cell_mask]
          ELSE IF fault_type = STUCK_ADC
            THEN [a EXCEPT !.stuck_adc_mask = @ \cup cell_mask]
          ELSE IF fault_type = NTC_OPEN \/ fault_type = NTC_SHORT
            THEN [a EXCEPT !.ntc_fault_mask = @ \cup cell_mask]
          ELSE IF fault_type = CURRENT_SENSOR_FAULT
            THEN [a EXCEPT !.current_sensor_fault = TRUE]
          ELSE a
    IN  IF duration_ms # NoneT
          THEN [a1 EXCEPT !.fault_schedule =
                  Append(@, [fault_type |-> fault_type,
                             cell_mask |-> cell_mask,
                             clear_time_ms |->
                                _get_current_time_ms(a1, now) + duration_ms])]
          ELSE a1

\* AFEWrapper.clear_fault
clear_fault(a, fault_type, cell_mask) ==
    IF fault_type = OPEN_WIRE
      THEN [a EXCEPT !.open_wire_mask =
              IF cell_mask = NoneMask THEN {} ELSE @ \ cell_mask]
    ELSE IF fault_type = STUCK_ADC
      THEN [a EXCEPT !.stuck_adc_mask =
              IF cell_mask = NoneMask THEN {} ELSE @ \ cell_mask]
    ELSE IF fault_type = NTC_OPEN \/ fault_type = NTC_SHORT
      THEN [a EXCEPT !.ntc_fault_mask =
              IF cell_mask = NoneMask THEN {} ELSE @ \ cell_mask]
    ELSE IF fault_type = CURRENT_SENSOR_FAULT
      THEN [a EXCEPT !.current_sensor_fault = FALSE]
    ELSE a

\* AFEWrapper.schedule_fault
schedule_fault(a, fault_type, inject_time_ms, cell_mask, duration_ms) ==
    [a EXCEPT !.fault_schedule =
        Append(@, [fault_type |-> fault_type,
                   cell_mask |-> cell_mask,
                   inject_time_ms |-> inject_time_ms,
                   duration_ms |-> duration_ms,
                   injected |-> FALSE])]

\* AFEWrapper.set_crc_error_rate, for a rate in [0, 1].
set_crc_error_rate(a, error_rate) == [a EXCEPT !.crc_error_rate = error_rate]

\* The for loop of _update_fault_schedule from index i on.  The loop iterates
\* over self._fault_schedule itself, so an entry that inject_fault appends
\* during the loop is visited by the same loop.  current_time is the reading
\* taken before the loop, now the clock when inject_fault reads it again.
RECURSIVE ScheduleLoop(_, _, _, _, _)
ScheduleLoop(a, i, remaining_schedule, current_time, now) ==
    IF i > Len(a.fault_schedule)
      THEN [a EXCEPT !.fault_schedule = remaining_schedule]
    ELSE
      LET ev == a.fault_schedule[i]
          due == /\ "inject_time_ms" \in DOMAIN ev
                 /\ ~ev.injected
                 /\ current_time >= ev.inject_time_ms
          a1 == IF due
                  THEN inject_fault(a, ev.fault_type, ev.cell_mask,
                                    ev.duration_ms, now)
                  ELSE a
          ev1 == IF due THEN [ev EXCEPT !.injected = TRUE] ELSE ev
          a2 == [a1 EXCEPT !.fault_schedule[i] = ev1]
      IN  IF due /\ ev.duration_ms = NoneT
            THEN ScheduleLoop(a2, i + 1, remaining_schedule, current_time, now)
          ELSE IF "clear_time_ms" \in DOMAIN ev1
                  /\ current_time >= ev1.clear_time_ms
            THEN ScheduleLoop(clear_fault(a2, ev1.fault_type, ev1.cell_mask),
                              i + 1, remaining_schedule, current_time, now)
          ELSE ScheduleLoop(a2, i + 1, Append(remaining_schedule, ev1),
                            current_time, now)

\* AFEWrapper._update_fault_schedule: now1 is the clock at its first line,
\* now2 the clock when the injections of the loop read it.
_update_fault_schedule(a, now1, now2) ==
    ScheduleLoop(a, 1, << >>, _get_current_time_ms(a, now1), now2)

\* AFEWrapper.reset
\* reset without the clearing of the captured stuck-ADC values.
ResetKeepsStuckValues(a) ==
    [a EXCEPT !.open_wire_mask = {},
              !.stuck_adc_mask = {},
              !.ntc_fault_mask = {},
              !.current_sensor_fault = FALSE,
              !.crc_error_rate = 0,
              !.fault_schedule = << >>,
              !.status_flags = {},
              !.measurement_count = 0,
              !.crc_error_count = 0,
              !.start_time_ms = NoneT]

reset(a) ==
    [a EXCEPT !.open_wire_mask = {},
              !.stuck_adc_mask = {},
              !.stuck_adc_values = [i \in Cells |-> 0],
              !.ntc_fault_mask = {},
              !.current_sensor_fault = FALSE,
              !.crc_error_rate = 0,
              !.fault_schedule = << >>,
              !.status_flags = {},
              !.measurement_count = 0,
              !.crc_error_count = 0,
              !.start_time_ms = NoneT]

----------------------------------------------------------------------------
(* The measurement chain.                                                  *)

\* The reading of channel i before fault injection: calibration, then noise.
VoltageReading(a, true_voltages, z, i) ==
    ApplyGain(true_voltages[i], a.voltage_gain_errors[i])
        + a.voltage_offsets_mv[i] + Normal(0, a.voltage_noise_mv, z[i])

\* Quantization to the 0.1 mV grid, then the clip to [0, 6553.5] mV.
QuantizeVoltage(x) ==
    Clip(RoundHalfEven(x, VOLTAGE_RESOLUTION_MV) * VOLTAGE_RESOLUTION_MV,
         0, VOLTAGE_CLIP_MAX_MV)

\* The stuck-ADC test of the fault loop: nothing is stored for channel i yet.
NothingStored(a, i) == a.stuck_adc_values[i] = 0

\* The fault loop without its open-wire branch.
FaultedVoltageNoOpenWire(a, reading, i) ==
    IF i \in a.stuck_adc_mask
      THEN IF NothingStored(a, i) THEN reading ELSE a.stuck_adc_values[i]
    ELSE reading

\* The fault loop of _process_voltages for channel i: the value that goes on
\* to quantization.
FaultedVoltage(a, reading, i) ==
    IF i \in a.open_wire_mask THEN INVALID_VOLTAGE_MV
    ELSE IF i \in a.stuck_adc_mask
      THEN IF NothingStored(a, i) THEN reading ELSE a.stuck_adc_values[i]
    ELSE reading

\* ... and what it leaves in _stuck_adc_values[i].
StoredVoltage(a, reading, i) ==
    IF i \in a.open_wire_mask THEN a.stuck_adc_values[i]
    ELSE IF i \in a.stuck_adc_mask
      THEN IF NothingStored(a, i) THEN reading ELSE a.stuck_adc_values[i]
    ELSE reading

\* AFEWrapper._process_voltages: z are the 16 standard-normal variates of the
\* call.  The result is the instance and the measured voltages.
_process_voltages(a, true_voltages, z) ==
    LET reading == [i \in Cells |-> VoltageReading(a, true_voltages, z, i)]
    IN  [afe |-> [a EXCEPT !.stuck_adc_values =
                    [i \in Cells |-> StoredVoltage(a, reading[i], i)]],
         measured |->
            [i \in Cells |-> QuantizeVoltage(FaultedVoltage(a, reading[i], i))]]

\* The temperature of channel i after the fault loop.
FaultedTemperature(a, true_temps, z, i) ==
    IF i \in a.ntc_fault_mask THEN INVALID_TEMP_C
    ELSE true_temps[i] + a.temp_offsets_c[i] + Normal(0, a.temp_noise_c, z[i])

\* AFEWrapper._process_temperatures: quantization to the 0.1 degC grid, then
\* the conversion to centi-degC as int16.
_process_temperatures(a, true_temps, z, cast) ==
    [i \in Cells |->
        AsInt16(RoundHalfEven(FaultedTemperature(a, true_temps, z, i),
                              TEMPERATURE_RESOLUTION_C)
                    * TEMPERATURE_RESOLUTION_C,
                cast)]

\* AFEWrapper._process_current
_process_current(a, true_current, z) ==
    LET reading == ApplyGain(true_current, a.current_gain_error)
                     + a.current_offset_ma + Normal(0, a.current_noise_ma, z)
        faulted == IF a.current_sensor_fault THEN INVALID_CURRENT_MA
                   ELSE reading
    IN  RoundHalfEven(faulted, CURRENT_RESOLUTION_MA) * CURRENT_RESOLUTION_MA

\* _update_status_flags without the assignment of 0 that starts it: the bits
\* of the call before are kept.
StatusFlagsNotRebuilt(a, voltages, temps, current) ==
    [a EXCEPT !.status_flags =
        @ \cup a.open_wire_mask
          \cup {i \in Cells : voltages[i] = INVALID_VOLTAGE_MV}
          \cup {NUM_CELLS + i : i \in {j \in Cells :
                                        temps[j] <= NTC_INVALID_THRESHOLD}}
          \cup (IF a.current_sensor_fault \/ current = INVALID_CURRENT_MA
                  THEN {CURRENT_SENSOR_BIT} ELSE {})]

\* AFEWrapper._update_status_flags: the word is rebuilt from 0.
_update_status_flags(a, voltages, temps, current) ==
    [a EXCEPT !.status_flags =
        a.open_wire_mask
          \cup {i \in Cells : voltages[i] = INVALID_VOLTAGE_MV}
          \cup {NUM_CELLS + i : i \in {j \in Cells :
                                        temps[j] <= NTC_INVALID_THRESHOLD}}
          \cup (IF a.current_sensor_fault \/ current = INVALID_CURRENT_MA
                  THEN {CURRENT_SENSOR_BIT} ELSE {})]

\* _should_inject_crc_error without its guard, comparing with <=.
CrcErrorNoGuard(a, u) == u <= a.crc_error_rate

\* AFEWrapper._should_inject_crc_error: u is the uniform variate it draws when
\* the rate is positive.
_should_inject_crc_error(a, u) ==
    IF a.crc_error_rate <= 0 THEN FALSE ELSE u < a.crc_error_rate

\* The arguments of one apply_measurement call together with the variates it
\* draws, the clock readings it takes and the outcome of the int16 conversion.
\* AFEWrapper.apply_measurement: the instance after the call and the tuple
\* returned.
apply_measurement(a, c) ==
    LET a1 == [a EXCEPT !.measurement_count = @ + 1]
        a2 == _update_fault_schedule(a1, c.now1, c.now2)
        pv == _process_voltages(a2, c.true_voltages, c.z_voltage)
        measured_temps ==
            _process_temperatures(pv.afe, c.true_temps, c.z_temp, c.cast)
        measured_current ==
            _process_current(pv.afe, c.true_current, c.z_current)
        a3 == _update_status_flags(pv.afe, pv.measured, measured_temps,
                                   measured_current)
        a4 == IF _should_inject_crc_error(a3, c.u_crc)
                THEN [a3 EXCEPT !.crc_error_count = @ + 1,
                                !.status_flags = @ \cup {CRC_ERROR_BIT}]
                ELSE a3
    IN  [afe |-> a4,
         ret |-> [measured_voltages |-> pv.measured,
                  measured_temps |-> measured_temps,
                  measured_current |-> measured_current,
                  status_flags |-> a4.status_flags]]

----------------------------------------------------------------------------
(* History of the run.                                                     *)
(*   called    an apply_measurement was made since construction or reset;  *)
(*   active    the faults with which the latest apply_measurement          *)
(*             processed its measurement (after it advanced the schedule); *)
(*   prev      the open-wire faults and the status word of the call before *)
(*             it;                                                         *)
(*   prior[c]  the value returned for channel c by the latest call that    *)
(*             processed it with neither open-wire nor stuck-ADC active    *)
(*             (since construction or reset), NoneT if there is none;      *)
(*   first[c]  the value returned for c by the first call that processed   *)
(*             it with stuck-ADC active and open-wire not, since stuck-ADC *)
(*             was last activated on c; NoneT if there is none;            *)
(*   last[c]   the same for the latest such call;                          *)
(*   timed     the direct injections with a duration that have been made   *)
(*             and not been overridden: fault type, mask and the clock     *)
(*             reading at which the duration has elapsed;                  *)
(*   event     the first schedule_fault call since construction or reset:  *)
(*             its arguments; injected_at, the elapsed time read by the    *)
(*             injection made by the first apply_measurement at an elapsed *)
(*             time >= inject_time_ms (NoneT before); applied, whether an  *)
(*             apply_measurement was made since; tracked, whether the      *)
(*             simulation was started before and not restarted since, the  *)
(*             fault was neither active nor on the schedule when the event *)
(*             was scheduled, and no other call has injected, scheduled or *)
(*             cleared the same fault since.                               *)

ActiveFaults(a) ==
    [open_wire |-> a.open_wire_mask,
     stuck_adc |-> a.stuck_adc_mask,
     ntc_fault |-> a.ntc_fault_mask,
     current_sensor_fault |-> a.current_sensor_fault,
     crc_error_rate |-> a.crc_error_rate]

NoHistory ==
    [called |-> FALSE,
     active |-> [open_wire |-> {}, stuck_adc |-> {}, ntc_fault |-> {},
                 current_sensor_fault |-> FALSE, crc_error_rate |-> 0],
     prev |-> [open_wire |-> {}, status_flags |-> {}],
     prior |-> [c \in Cells |-> NoneT],
     first |-> [c \in Cells |-> NoneT],
     last |-> [c \in Cells |-> NoneT],
     timed |-> {},
     permanent |-> {},
     event |-> [fault_type |-> "none", cell_mask |-> {},
                inject_time_ms |-> 0, duration_ms |-> NoneT,
                injected_at |-> NoneT, applied |-> FALSE, tracked |-> FALSE]]

\* The fault is active on every cell of the mask; on none of them.
FaultActive(act, fault_type, cell_mask) ==
    IF fault_type = OPEN_WIRE THEN cell_mask \subseteq act.open_wire
    ELSE IF fault_type = STUCK_ADC THEN cell_mask \subseteq act.stuck_adc
    ELSE IF fault_type \in {NTC_OPEN, NTC_SHORT}
      THEN cell_mask \subseteq act.ntc_fault
    ELSE fault_type = CURRENT_SENSOR_FAULT /\ act.current_sensor_fault

FaultInactive(act, fault_type, cell_mask) ==
    IF fault_type = OPEN_WIRE THEN cell_mask \cap act.open_wire = {}
    ELSE IF fault_type = STUCK_ADC THEN cell_mask \cap act.stuck_adc = {}
    ELSE IF fault_type \in {NTC_OPEN, NTC_SHORT}
      THEN cell_mask \cap act.ntc_fault = {}
    ELSE fault_type = CURRENT_SENSOR_FAULT => ~act.current_sensor_fault

\* The stuck-ADC episodes that ended: the fault is no longer active.
HistMasks(h, a) ==
    [h EXCEPT !.first = [c \in Cells |->
                            IF c \in a.stuck_adc_mask THEN @[c] ELSE NoneT],
              !.last = [c \in Cells |->
                            IF c \in a.stuck_adc_mask THEN @[c] ELSE NoneT]]

\* After an apply_measurement that was called on the instance a0 with the
\* call record c, left the instance a and returned r.
HistApply(h, a0, a, r, c) ==
    LET h1 == HistMasks(h, a)
        ev == h.event
        due == /\ ev.fault_type # "none"
               /\ ev.injected_at = NoneT
               /\ _get_current_time_ms(a0, c.now1) >= ev.inject_time_ms
        healthy(i) == i \notin a.open_wire_mask /\ i \notin a.stuck_adc_mask
        stuck(i) == i \notin a.open_wire_mask /\ i \in a.stuck_adc_mask
    IN  [h1 EXCEPT
           !.called = TRUE,
           !.active = ActiveFaults(a),
           !.prev = [open_wire |-> h.active.open_wire,
                     status_flags |-> a0.status_flags],
           !.prior = [i \in Cells |->
                        IF healthy(i) THEN r.measured_voltages[i] ELSE @[i]],
           !.first = [i \in Cells |->
                        IF stuck(i) /\ @[i] = NoneT
                          THEN r.measured_voltages[i] ELSE @[i]],
           !.last = [i \in Cells |->
                        IF stuck(i) THEN r.measured_voltages[i] ELSE @[i]],
           !.event = IF ev.fault_type = "none" THEN ev
                     ELSE [ev EXCEPT
                             !.applied = TRUE,
                             !.injected_at =
                                IF due THEN _get_current_time_ms(a0, c.now2)
                                ELSE @]]

\* The fault types that share a mask or flag with fault_type.
SameFault(ft1, ft2) ==
    \/ ft1 = ft2
    \/ {ft1, ft2} \subseteq {NTC_OPEN, NTC_SHORT}

\* Another call on the fault of the tracked event ends its tracking.
Untrack(ev, fault_type) ==
    IF SameFault(ev.fault_type, fault_type)
      THEN [ev EXCEPT !.tracked = FALSE] ELSE ev

\* After a direct inject_fault: a timed injection is recorded with the clock
\* reading at which its duration has elapsed; any other call on the same
\* fault overrides the recorded ones.  Where record is set, an injection
\* without a duration is recorded as permanent until a direct clear_fault or
\* reset.
HistInject(h, a, fault_type, cell_mask, duration_ms, now, record) ==
    LET h1 == HistMasks(h, a)
        kept == {t \in h1.timed : ~SameFault(t.fault_type, fault_type)}
    IN  [h1 EXCEPT !.timed =
                      IF duration_ms = NoneT THEN kept
                      ELSE kept \cup {[fault_type |-> fault_type,
                                       cell_mask |-> cell_mask,
                                       elapsed_at |-> now + duration_ms]},
                   !.permanent =
                      IF duration_ms # NoneT \/ ~record THEN @
                      ELSE @ \cup {[fault_type |-> fault_type,
                                    cell_mask |-> cell_mask]},
                   !.event = Untrack(@, fault_type)]

\* After a direct clear_fault.
HistClear(h, a, fault_type) ==
    [HistMasks(h, a) EXCEPT
        !.timed = {t \in @ : ~SameFault(t.fault_type, fault_type)},
        !.permanent = {t \in @ : ~SameFault(t.fault_type, fault_type)},
        !.event = Untrack(@, fault_type)]

\* After a schedule_fault called on the instance a.
HistSchedule(h, a, fault_type, cell_mask, inject_time_ms, duration_ms) ==
    [h EXCEPT
        !.timed = {t \in @ : ~SameFault(t.fault_type, fault_type)},
        !.event =
            IF @.fault_type = "none"
              THEN [fault_type |-> fault_type,
                    cell_mask |-> cell_mask,
                    inject_time_ms |-> inject_time_ms,
                    duration_ms |-> duration_ms,
                    injected_at |-> NoneT,
                    applied |-> FALSE,
                    tracked |->
                       /\ a.start_time_ms # NoneT
                       /\ FaultInactive(ActiveFaults(a), fault_type, cell_mask)
                       /\ \A i \in 1..Len(a.fault_schedule) :
                             ~SameFault(a.fault_schedule[i].fault_type,
                                        fault_type)]
            ELSE Untrack(@, fault_type)]

\* After a start_simulation: the elapsed time starts again.
HistStart(h) == [h EXCEPT !.event.tracked = FALSE]

----------------------------------------------------------------------------
(* Bounds and samples of the inputs.                                       *)

MaxMeasurements == 2

Configs_Default ==
    [noise |-> DefaultNoiseConfig, calibration |-> DefaultCalibrationErrors]

NoRet ==
    [measured_voltages |-> [c \in Cells |-> NoneT],
     measured_temps |-> [c \in Cells |-> 0],
     measured_current |-> 0,
     status_flags |-> {}]

\* A call with the nominal true values (3200 mV, 25 degC, 50 A) and variates;
\* the clock readings are set by the action.
NominalCall ==
    [true_voltages |-> [c \in Cells |-> 320000],
     true_temps |-> [c \in Cells |-> 2500],
     true_current |-> 5000000,
     z_voltage |-> [c \in Cells |-> 0],
     z_temp |-> [c \in Cells |-> 0],
     z_current |-> 0,
     u_crc |-> 0,
     cast |-> "wrap",
     now1 |-> 0,
     now2 |-> 0]

\* Voltage scenario: channel 3 takes the sampled true voltages (0 mV, 0.04 mV,
\* 3200.12 mV) and the sampled normal variate (1.0).
VoltageMasks == {{3}, {5}}

----------------------------------------------------------------------------
(* The operations of the instance as actions.  Each takes the sets its     *)
(* arguments are drawn from.                                               *)

\* The constructor's uniform variates: channel 3 at the low end of each
\* range, every other channel at mid-range.
InitAFE(configs) ==
    /\ clock = 0
    /\ \E cfg \in configs, lo \in {0} :
          afe = AFEWrapper(cfg.noise, cfg.calibration,
                   [voltage_gain |-> [i \in Cells |-> IF i = 3 THEN lo ELSE 500],
                    voltage_offset |-> [i \in Cells |-> IF i = 3 THEN lo ELSE 500],
                    temp_offset |-> [i \in Cells |-> IF i = 3 THEN lo ELSE 500],
                    current_gain |-> 500,
                    current_offset |-> 500])
    /\ ret = NoRet
    /\ call = NominalCall
    /\ hist = NoHistory
    /\ clockB = 0
    /\ afeB = afe
    /\ retB = NoRet
    /\ np_random = 0
    /\ own_random = 0
    /\ NoPlant
    /\ NoComm

\* The fault management calls are followed up to the last of the limit
\* measurements.
InjectFault(kinds, masks, durations, record, limit) ==
    \E ft \in kinds, m \in masks, d \in durations :
        /\ afe.measurement_count < limit
        /\ afe' = inject_fault(afe, ft, m, d, clock)
        /\ hist' = HistInject(hist, afe', ft, m, d, clock, record)
        /\ UNCHANGED <<clock, ret, call, clockB, afeB, retB, np_random,
                       own_random,
                       plantVars, commVars>>

ClearFault(kinds, masks, limit) ==
    \E ft \in kinds, m \in masks :
        /\ afe.measurement_count < limit
        /\ afe' = clear_fault(afe, ft, m)
        /\ hist' = HistClear(hist, afe', ft)
        /\ UNCHANGED <<clock, ret, call, clockB, afeB, retB, np_random,
                       own_random,
                       plantVars, commVars>>

SetCrcErrorRate(rates, limit) ==
    \E rate \in rates :
        /\ afe.measurement_count < limit
        /\ afe' = set_crc_error_rate(afe, rate)
        /\ UNCHANGED <<clock, ret, call, hist, clockB, afeB, retB, np_random,
                       own_random,
                       plantVars, commVars>>

\* apply_measurement: the clock may advance by drift between the reading of
\* _update_fault_schedule and those of the injections it makes.
ApplyMeasurement(calls, drifts, limit) ==
    /\ afe.measurement_count < limit
    /\ \E c0 \in calls, drift \in drifts :
          LET c == [c0 EXCEPT !.now1 = clock, !.now2 = clock + drift]
              res == apply_measurement(afe, c)
          IN  /\ afe' = res.afe
              /\ ret' = res.ret
              /\ call' = c
              /\ clock' = clock + drift
              /\ hist' = HistApply(hist, afe, res.afe, res.ret, c)
    /\ UNCHANGED <<clockB, afeB, retB, np_random, own_random,
                       plantVars, commVars>>

Reset ==
    /\ afe' = reset(afe)
    /\ hist' = NoHistory
    /\ UNCHANGED <<clock, ret, call, clockB, afeB, retB, np_random,
                       own_random,
                       plantVars, commVars>>

\* start_simulation reads the clock.
StartSimulation(limit) ==
    /\ afe.measurement_count < limit
    /\ afe' = start_simulation(afe, clock)
    /\ hist' = HistStart(hist)
    /\ UNCHANGED <<clock, ret, call, clockB, afeB, retB, np_random,
                   own_random,
                       plantVars, commVars>>

\* schedule_fault, while the schedule has fewer than entries entries.
ScheduleFault(kinds, masks, times, durations, entries, limit) ==
    \E ft \in kinds, m \in masks, t \in times, d \in durations :
        /\ afe.measurement_count < limit
        /\ Len(afe.fault_schedule) < entries
        /\ afe' = schedule_fault(afe, ft, t, m, d)
        /\ hist' = HistSchedule(hist, afe, ft, m, t, d)
        /\ UNCHANGED <<clock, ret, call, clockB, afeB, retB, np_random,
                       own_random,
                       plantVars, commVars>>

\* The system clock advances by one millisecond, up to the last reading.
Tick(last) ==
    /\ clock < last
    /\ clock' = clock + 1
    /\ UNCHANGED <<afe, ret, call, hist, clockB, afeB, retB, np_random,
                   own_random,
                       plantVars, commVars>>

----------------------------------------------------------------------------
(* Spec: the voltage channels under open-wire and stuck-ADC faults.        *)

Init ==
    InitAFE({Configs_Default,
             [noise |-> ZeroNoiseConfig,
              calibration |-> ZeroCalibrationErrors]})

Next ==
    \/ InjectFault({OPEN_WIRE, STUCK_ADC}, VoltageMasks, {NoneT}, FALSE,
                   MaxMeasurements)
    \/ ClearFault({OPEN_WIRE, STUCK_ADC}, VoltageMasks \cup {NoneMask},
                  MaxMeasurements)
    \/ ApplyMeasurement({[NominalCall EXCEPT !.true_voltages[3] = v,
                                              !.z_voltage[3] = z] :
                            v \in {0, 4, 320012}, z \in {10}},
                        {0}, MaxMeasurements)
    \/ Reset

Spec == Init /\ [][Next]_vars

----------------------------------------------------------------------------
(* Claims about the voltage channels (checked under Spec).                 *)

\* C1: in the tuple returned by every apply_measurement, and for every cell c
\* in 0..15, bit c of the status word is set if and only if
\* measured_voltages[c] is the open-wire sentinel 0.0 mV.  As this holds of
\* every call, a bit of 0..15 set by the call before survives only if the new
\* measurement sets it again.
C1_StatusBitFollowsVoltage ==
    /\ \A c \in Cells :
          c \in ret.status_flags
            <=> ret.measured_voltages[c] = INVALID_VOLTAGE_MV
    /\ hist.called => afe.status_flags = ret.status_flags

\* C1 (witness): the call before returned bit 3 set; the latest call returns
\* a non-zero voltage for cell 3 with bit 3 clear, and 0.0 mV for cell 5 with
\* bit 5 set.
C1_Witness ==
    /\ hist.called
    /\ 3 \in hist.prev.status_flags
    /\ 3 \notin ret.status_flags
    /\ ret.measured_voltages[3] > 0
    /\ 5 \in ret.status_flags
    /\ ret.measured_voltages[5] = INVALID_VOLTAGE_MV

\* The value of channel c that the latest call quantized, when open-wire was
\* not active on c: the held value under stuck-ADC, else the calibrated noisy
\* reading of the call's true voltage.
UsedVoltage(c) ==
    IF c \in hist.active.stuck_adc THEN afe.stuck_adc_values[c]
    ELSE VoltageReading(afe, call.true_voltages, call.z_voltage, c)

\* inject_fault(OPEN_WIRE, m) adds the cells of m to the open-wire mask,
\* clear_fault(OPEN_WIRE, m) removes them again, and neither changes anything
\* else of the instance.
OpenWireInjectClear(m) ==
    LET inj == inject_fault(afe, OPEN_WIRE, m, NoneT, clock)
        clr == clear_fault(inj, OPEN_WIRE, m)
    IN  /\ inj = [afe EXCEPT !.open_wire_mask = afe.open_wire_mask \cup m]
        /\ clr = [afe EXCEPT !.open_wire_mask = afe.open_wire_mask \ m]

\* C3 (the claim as stated): a call that processes cell c with open-wire
\* active returns measured_voltages[c] = 0.0 with status bit c set; the call
\* that follows the clearing of the fault returns, for any positive true
\* voltage, a non-zero measured_voltages[c] with status bit c clear.
C3_OpenWireRoundTripAsStated ==
    hist.called =>
      \A c \in Cells :
        /\ c \in hist.active.open_wire =>
              /\ ret.measured_voltages[c] = INVALID_VOLTAGE_MV
              /\ c \in ret.status_flags
        /\ ( /\ c \in hist.prev.open_wire
             /\ c \notin hist.active.open_wire
             /\ call.true_voltages[c] > 0 ) =>
              /\ ret.measured_voltages[c] # INVALID_VOLTAGE_MV
              /\ c \notin ret.status_flags

\* C3 (amended): open-wire round trip.  inject_fault(OPEN_WIRE, m) sets the
\* open-wire bits of m and clear_fault(OPEN_WIRE, m) clears them, leaving every
\* other cell's bit and everything else unchanged.  A call that processes cell
\* c with its bit set returns 0.0 mV with status bit c set.  A call that
\* processes c with its bit clear returns the quantized, clipped value of the
\* cell's own reading (calibrated, noisy true voltage, or the held stuck-ADC
\* value): it is non-zero with status bit c clear when that value rounds to at
\* least 0.1 mV, and it is 0.0 mV with status bit c set otherwise, which
\* happens for small positive true voltages.
C3_OpenWireRoundTrip ==
    /\ \A m \in VoltageMasks : OpenWireInjectClear(m)
    /\ hist.called =>
         \A c \in Cells :
           /\ c \in hist.active.open_wire =>
                 /\ ret.measured_voltages[c] = INVALID_VOLTAGE_MV
                 /\ c \in ret.status_flags
           /\ c \notin hist.active.open_wire =>
                 /\ ret.measured_voltages[c] = QuantizeVoltage(UsedVoltage(c))
                 /\ c \in ret.status_flags
                      <=> ret.measured_voltages[c] = INVALID_VOLTAGE_MV
                 /\ RoundHalfEven(UsedVoltage(c), VOLTAGE_RESOLUTION_MV) >= 1
                      => /\ ret.measured_voltages[c] # INVALID_VOLTAGE_MV
                         /\ c \notin ret.status_flags

\* C3 (witness): the call before processed cell 3 with open-wire active and
\* returned bit 3 set; the fault was cleared and the latest call returns a
\* non-zero voltage for cell 3 with bit 3 clear, while cell 5 is still open.
C3_Witness ==
    /\ hist.called
    /\ 3 \in hist.prev.open_wire
    /\ 3 \in hist.prev.status_flags
    /\ 3 \notin hist.active.open_wire
    /\ ret.measured_voltages[3] > 0
    /\ 3 \notin ret.status_flags
    /\ 5 \in hist.active.open_wire
    /\ ret.measured_voltages[5] = INVALID_VOLTAGE_MV

\* C4 (the claim as stated): while stuck-ADC is active on channel c and
\* open-wire is not, every call returns the same measured_voltages[c] (the
\* latest such call returns what the first returned), and that value is the
\* channel's most recent reading from before the fault became active, if
\* there is one.
C4_StuckAdcHoldsPriorReading ==
    \A c \in Cells :
      hist.first[c] # NoneT =>
        /\ hist.last[c] = hist.first[c]
        /\ hist.prior[c] # NoneT => hist.first[c] = hist.prior[c]

----------------------------------------------------------------------------
(* SpecStatus: the temperature channels, the current channel and the       *)
(* status word under NTC, current-sensor and CRC faults, with open-wire    *)
(* and stuck-ADC faults on cells 14 and 15.                                *)

\* The base call has the nominal true values, the normal variate 1.0 on
\* temperature channel 14 and a CRC variate of 0; from it depart, one at a
\* time, a true temperature of -325 degC on channel 14 (a forced cell
\* temperature below the invalid threshold), a true current of 0 A, a CRC
\* variate of 0.999 and the other outcome of the int16 conversion.
MaxStatusMeasurements == 1

NextStatus ==
    \/ InjectFault(FaultType, {{8, 14, 15}}, {NoneT}, FALSE,
                  MaxStatusMeasurements)
    \/ ClearFault(FaultType, {NoneMask}, MaxStatusMeasurements)
    \/ SetCrcErrorRate({0, 500}, MaxStatusMeasurements)
    \/ ApplyMeasurement(
          {[NominalCall EXCEPT !.z_temp[14] = 10],
           [NominalCall EXCEPT !.z_temp[14] = 10,
                               !.true_temps[14] = 0 - 32500],
           [NominalCall EXCEPT !.z_temp[14] = 10, !.true_current = 0],
           [NominalCall EXCEPT !.z_temp[14] = 10, !.u_crc = 999],
           [NominalCall EXCEPT !.z_temp[14] = 10, !.cast = "saturate"]},
          {0}, MaxStatusMeasurements)
    \/ Reset

SpecStatus == Init /\ [][NextStatus]_vars

\* C2 (the claim as stated): a call that processes cell c with an NTC fault
\* active returns measured_temps[c] = -32768 centi-degC (so <= -32000) and
\* sets status bit 16 + c.
C2_NtcFaultReturnsSentinel ==
    hist.called =>
      \A c \in hist.active.ntc_fault \cap Cells :
        /\ ret.measured_temps[c] = INVALID_TEMP_C
        /\ ret.measured_temps[c] <= NTC_INVALID_THRESHOLD
        /\ (NUM_CELLS + c) \in ret.status_flags

\* The hypotheses of C5 on the latest call: CRC error rate 0, no
\* current-sensor fault active, a non-zero measured current.
C5_Hypotheses ==
    /\ hist.called
    /\ hist.active.crc_error_rate = 0
    /\ ~hist.active.current_sensor_fault
    /\ ret.measured_current # INVALID_CURRENT_MA

\* C5 (the claim as stated): under these hypotheses the returned status has
\* bits 30 and 31 clear, whatever per-cell faults are active.
C5_Bits30And31ClearAsStated ==
    C5_Hypotheses =>
      /\ CURRENT_SENSOR_BIT \notin ret.status_flags
      /\ CRC_ERROR_BIT \notin ret.status_flags

\* C5 (amended): bits 30 and 31 are also the NTC bits 16 + c of cells 14 and
\* 15.  With CRC error rate 0, no current-sensor fault active, a non-zero
\* measured current and the open-wire mask within cells 0..15, bit 30 is set
\* if and only if the returned measured_temps[14] is <= -32000 centi-degC, and
\* bit 31 if and only if measured_temps[15] is; so both are clear exactly when
\* both temperatures are above -32000.
C5_Bits30And31 ==
    (C5_Hypotheses /\ hist.active.open_wire \subseteq Cells) =>
      /\ CURRENT_SENSOR_BIT \in ret.status_flags
           <=> ret.measured_temps[14] <= NTC_INVALID_THRESHOLD
      /\ CRC_ERROR_BIT \in ret.status_flags
           <=> ret.measured_temps[15] <= NTC_INVALID_THRESHOLD

\* C5 (witness): a call under the hypotheses, with open-wire, stuck-ADC and
\* NTC faults active on cells 14 and 15, that returns bit 30 set.
C5_Witness ==
    /\ C5_Hypotheses
    /\ {14, 15} \subseteq hist.active.open_wire
    /\ {14, 15} \subseteq hist.active.stuck_adc
    /\ {14, 15} \subseteq hist.active.ntc_fault
    /\ CURRENT_SENSOR_BIT \in ret.status_flags

----------------------------------------------------------------------------
(* SpecSched: the fault schedule against the system clock.  Open-wire      *)
(* faults on cell 3 are injected, with and without a duration, scheduled   *)
(* and cleared; the simulation is started, or not; the clock ticks between *)
(* the calls and may tick inside apply_measurement, between the reading of *)
(* _update_fault_schedule and the reading of the injection it makes.       *)

MaxSchedMeasurements == 2
MaxSchedule == 1
MaxClock == 2

InitSched == InitAFE({Configs_Default})

\* A timed injection needs room on the schedule for its clearing entry.
NextSched ==
    \/ StartSimulation(MaxSchedMeasurements)
    \/ ScheduleFault({OPEN_WIRE}, {{3}}, {1}, {NoneT, 1},
                     MaxSchedule, MaxSchedMeasurements)
    \/ /\ Len(afe.fault_schedule) < MaxSchedule
       /\ InjectFault({OPEN_WIRE}, {{3}}, {NoneT, 1}, TRUE,
                      MaxSchedMeasurements)
    \/ ClearFault({OPEN_WIRE}, {NoneMask}, MaxSchedMeasurements)
    \/ ApplyMeasurement({NominalCall}, {d \in {0, 1} : clock + d <= MaxClock},
                        MaxSchedMeasurements)
    \/ Tick(MaxClock)
    \/ Reset

SpecSched == InitSched /\ [][NextSched]_vars

\* The elapsed time read by the latest apply_measurement.
CallElapsed == _get_current_time_ms(afe, call.now1)

C30_PermanentFaultStaysActive ==
    \A f \in hist.permanent :
        FaultActive(ActiveFaults(afe), f.fault_type, f.cell_mask)

\* C7 (the claim as stated): an entry of a scheduled event stays on the
\* schedule only while the event is unresolved, that is, not yet injected or
\* with its clearing entry still pending; so the schedule holds no injected
\* event without a pending clearing entry of its fault.
C7_ResolvedEntriesRemoved ==
    \A i \in 1..Len(afe.fault_schedule) :
        LET ev == afe.fault_schedule[i]
        IN  ("inject_time_ms" \in DOMAIN ev /\ ev.injected) =>
               \E j \in 1..Len(afe.fault_schedule) :
                   /\ "clear_time_ms" \in DOMAIN afe.fault_schedule[j]
                   /\ afe.fault_schedule[j].fault_type = ev.fault_type
                   /\ afe.fault_schedule[j].cell_mask = ev.cell_mask

\* C9 (the claim as stated): a fault injected directly with a duration, and
\* not injected, scheduled or cleared by another call since, is not active in
\* an apply_measurement made once the duration has elapsed since the
\* injection, whether or not start_simulation was called.
C9_TimedInjectionExpires ==
    hist.called =>
      \A t \in hist.timed :
        call.now1 >= t.elapsed_at =>
          FaultInactive(hist.active, t.fault_type, t.cell_mask)

----------------------------------------------------------------------------
(* SpecPair: two executions of one call sequence.  Every call is made in   *)
(* both executions, on afe and on afeB; between the calls the system clock *)
(* of each execution advances on its own.                                  *)

MaxPairMeasurements == 2
MaxPairClock == 2

PairStart ==
    /\ afe.measurement_count < MaxPairMeasurements
    /\ afe' = start_simulation(afe, clock)
    /\ afeB' = start_simulation(afeB, clockB)
    /\ UNCHANGED <<clock, ret, call, hist, clockB, retB, np_random,
                   own_random,
                       plantVars, commVars>>

PairSchedule ==
    \E m \in {{3}}, t \in {1}, d \in {NoneT, 1} :
        /\ afe.measurement_count < MaxPairMeasurements
        /\ Len(afe.fault_schedule) < MaxSchedule
        /\ Len(afeB.fault_schedule) < MaxSchedule
        /\ afe' = schedule_fault(afe, OPEN_WIRE, t, m, d)
        /\ afeB' = schedule_fault(afeB, OPEN_WIRE, t, m, d)
        /\ UNCHANGED <<clock, ret, call, hist, clockB, retB, np_random,
                       own_random,
                       plantVars, commVars>>

PairInject ==
    \E m \in {{3}}, d \in {NoneT, 1} :
        /\ afe.measurement_count < MaxPairMeasurements
        /\ Len(afe.fault_schedule) < MaxSchedule
        /\ Len(afeB.fault_schedule) < MaxSchedule
        /\ afe' = inject_fault(afe, OPEN_WIRE, m, d, clock)
        /\ afeB' = inject_fault(afeB, OPEN_WIRE, m, d, clockB)
        /\ UNCHANGED <<clock, ret, call, hist, clockB, retB, np_random,
                       own_random,
                       plantVars, commVars>>

PairApply ==
    /\ afe.measurement_count < MaxPairMeasurements
    /\ LET c == [NominalCall EXCEPT !.now1 = clock, !.now2 = clock]
           cB == [NominalCall EXCEPT !.now1 = clockB, !.now2 = clockB]
           res == apply_measurement(afe, c)
           resB == apply_measurement(afeB, cB)
       IN  /\ afe' = res.afe
           /\ ret' = res.ret
           /\ call' = c
           /\ hist' = HistApply(hist, afe, res.afe, res.ret, c)
           /\ afeB' = resB.afe
           /\ retB' = resB.ret
    /\ UNCHANGED <<clock, clockB, np_random, own_random,
                       plantVars, commVars>>

\* The last step is a tick of the clock of the second execution.
NextPair ==
    \/ PairStart
    \/ PairSchedule
    \/ PairInject
    \/ PairApply
    \/ Tick(MaxPairClock)
    \/ /\ clockB < MaxPairClock
       /\ clockB' = clockB + 1
       /\ UNCHANGED <<clock, afe, ret, call, hist, afeB, retB, np_random,
                      own_random, plantVars, commVars>>

SpecPair == InitSched /\ [][NextPair]_vars

\* C8 (the claim as stated): in two executions of the same sequence of
\* start_simulation, schedule_fault, inject_fault and apply_measurement calls,
\* every apply_measurement processes its measurement with the same faults
\* active and returns the same status word, however much system time passes
\* between the calls in either execution.
C8_SameFaultsInEveryExecution ==
    /\ ActiveFaults(afe) = ActiveFaults(afeB)
    /\ ret.status_flags = retB.status_flags

----------------------------------------------------------------------------
(* SpecRng: numpy's process-wide generator.  The instance afe was          *)
(* constructed with a seed and draws, as the code does, from np.random;    *)
(* other AFEWrapper and BatteryPack16S instances are constructed and       *)
(* called in between.  afeB is the same instance drawing from a generator  *)
(* of its own, own_random, seeded with the same seed.  The generator is    *)
(* modelled as a stream of period 16: its state is the position in the     *)
(* stream, a seed sets the position, a draw advances it by one and yields  *)
(* a value scrambled from the position.                                    *)

GenPeriod == 2 ^ 4
GenSeed(seed) == (7 * seed) % GenPeriod
GenAdvance(g, n) == (g + n) % GenPeriod
GenOutput(g) == (5 * g + 3) % GenPeriod

\* The k-th variate drawn from state g: uniform in thousandths, standard
\* normal in tenths.
GenUniform(g, k) == (GenOutput(GenAdvance(g, k)) * 1000) \div GenPeriod
GenNormal(g, k) == GenOutput(GenAdvance(g, k)) - GenPeriod \div 2

\* The variates of AFEWrapper.__init__ in the order it draws them, and their
\* number.
ConstructorDraws(g) ==
    [voltage_gain |-> [i \in Cells |-> GenUniform(g, 1 + i)],
     voltage_offset |-> [i \in Cells |-> GenUniform(g, NUM_CELLS + 1 + i)],
     temp_offset |-> [i \in Cells |-> GenUniform(g, 2 * NUM_CELLS + 1 + i)],
     current_gain |-> GenUniform(g, 3 * NUM_CELLS + 1),
     current_offset |-> GenUniform(g, 3 * NUM_CELLS + 2)]
ConstructorDrawCount == 3 * NUM_CELLS + 2

\* The variates of an apply_measurement of the instance a in the order it
\* draws them, and their number: the CRC trial draws only at a positive rate.
MeasurementDraws(a, g) ==
    [NominalCall EXCEPT
        !.z_voltage = [i \in Cells |-> GenNormal(g, 1 + i)],
        !.z_temp = [i \in Cells |-> GenNormal(g, NUM_CELLS + 1 + i)],
        !.z_current = GenNormal(g, 2 * NUM_CELLS + 1),
        !.u_crc = GenUniform(g, 2 * NUM_CELLS + 2)]
MeasurementDrawCount(a) ==
    2 * NUM_CELLS + 1 + (IF a.crc_error_rate > 0 THEN 1 ELSE 0)

\* np.random.seed(seed) when a seed is given.
SeedGlobal(g, seed) == IF seed = NoneT THEN g ELSE GenSeed(seed)

MaxRngMeasurements == 2

\* The instance is constructed with a seed, in a process whose generator is
\* in any state.
InitRng ==
    /\ \E seed \in 0 .. 3 :
          /\ afe = AFEWrapper(DefaultNoiseConfig, DefaultCalibrationErrors,
                              ConstructorDraws(GenSeed(seed)))
          /\ np_random = GenAdvance(GenSeed(seed), ConstructorDrawCount)
    /\ own_random = np_random
    /\ afeB = afe
    /\ clock = 0
    /\ clockB = 0
    /\ ret = NoRet
    /\ retB = NoRet
    /\ call = NominalCall
    /\ hist = NoHistory
    /\ NoPlant
    /\ NoComm

\* apply_measurement of the instance.
RngApply ==
    /\ afe.measurement_count < MaxRngMeasurements
    /\ LET c == MeasurementDraws(afe, np_random)
           cB == MeasurementDraws(afeB, own_random)
           res == apply_measurement(afe, c)
           resB == apply_measurement(afeB, cB)
       IN  /\ afe' = res.afe
           /\ ret' = res.ret
           /\ call' = c
           /\ hist' = HistApply(hist, afe, res.afe, res.ret, c)
           /\ np_random' = GenAdvance(np_random, MeasurementDrawCount(afe))
           /\ afeB' = resB.afe
           /\ retB' = resB.ret
           /\ own_random' = GenAdvance(own_random, MeasurementDrawCount(afeB))
    /\ UNCHANGED <<clock, clockB,
                       plantVars, commVars>>

\* set_crc_error_rate of the instance.
RngSetCrcErrorRate ==
    \E rate \in {0, 500} :
        /\ afe.measurement_count < MaxRngMeasurements
        /\ afe' = set_crc_error_rate(afe, rate)
        /\ afeB' = set_crc_error_rate(afeB, rate)
        /\ UNCHANGED <<clock, ret, call, hist, clockB, retB, np_random,
                       own_random,
                       plantVars, commVars>>

\* Another AFEWrapper is constructed, with a seed or without.
OtherAFEWrapper ==
    \E seed \in (0 .. 3) \cup {NoneT} :
        /\ afe.measurement_count < MaxRngMeasurements
        /\ np_random' = GenAdvance(SeedGlobal(np_random, seed),
                                   ConstructorDrawCount)
        /\ UNCHANGED <<clock, afe, ret, call, hist, clockB, afeB, retB,
                       own_random,
                       plantVars, commVars>>

\* A BatteryPack16S is constructed, with a seed or without.
OtherBatteryPack16S ==
    \E seed \in (0 .. 3) \cup {NoneT} :
        /\ afe.measurement_count < MaxRngMeasurements
        /\ np_random' = GenAdvance(SeedGlobal(np_random, seed), 3 * NUM_CELLS)
        /\ UNCHANGED <<clock, afe, ret, call, hist, clockB, afeB, retB,
                       own_random,
                       plantVars, commVars>>

\* The last step is an apply_measurement of another AFEWrapper, at CRC
\* error rate 0.
NextRng ==
    \/ RngApply
    \/ RngSetCrcErrorRate
    \/ OtherAFEWrapper
    \/ OtherBatteryPack16S
    \/ /\ afe.measurement_count < MaxRngMeasurements
       /\ np_random' = GenAdvance(np_random, 2 * NUM_CELLS + 1)
       /\ UNCHANGED <<clock, afe, ret, call, hist, clockB, afeB, retB,
                      own_random, plantVars, commVars>>

SpecRng == InitRng /\ [][NextRng]_vars

\* C10 (the claim as stated): the calibration and the outputs of an instance
\* constructed with a seed are those the seed and the calls made on the
\* instance determine, that is, those of the same instance drawing from a
\* generator of its own; constructing or calling other instances in between
\* does not change them.
C10_SeededInstanceReproducible ==
    /\ afe = afeB
    /\ ret = retB

----------------------------------------------------------------------------
(***************************************************************************)
(* The plant: src/pc_simulator/plant/cell_model.py (LiFePO4Cell) and       *)
(* src/pc_simulator/plant/pack_model.py (BatteryPack16S).                  *)
(*                                                                         *)
(* Representation of the floats of the plant, all integers:                *)
(*   soc, hysteresis_soc, storage_soc     1e-6 (1.0 is 10^6)               *)
(*   soc in percent (soc_pct)             1e-6 percent (soc * 100)         *)
(*   temperatures                         0.001 degC                       *)
(*   current_ma                           0.001 mA; the physics uses the   *)
(*                                        whole milliamperes of it         *)
(*   dt_ms                                ms                               *)
(*   voltages (OCV, RC, terminal, mV)     0.01 mV, as the AFE takes them   *)
(*   resistances                          1e-9 ohm                         *)
(*   capacities                           mAh                              *)
(*   factors                              1e-6; resistance multipliers and *)
(*                                        C-rates 1e-3                     *)
(*   calendar time                        [h |-> whole hours, ms |-> rest] *)
(* Quotients are rounded toward zero.  A magnitude above Huge is Huge.     *)
(* NaN is the float nan; NoneF is None where a float is optional.          *)
(***************************************************************************)

NaN == 0 - (2 ^ 30)
NoneF == NaN - 1
Huge == 5 * (10 ^ 8)

Abs(x) == IF x < 0 THEN 0 - x ELSE x
Sat(x) == Clip(x, 0 - Huge, Huge)

\* Quotient and remainder of a * b by c for 0 <= b < c, by doubling.
RECURSIVE MulDivLoop(_, _, _)
MulDivLoop(a, b, c) ==
    IF a = 0 THEN [q |-> 0, r |-> 0]
    ELSE LET h == MulDivLoop(a \div 2, b, c)
             t == 2 * h.r + (IF a % 2 = 1 THEN b ELSE 0)
             q == 2 * h.q + t \div c
         IN  [q |-> IF q > Huge THEN Huge ELSE q, r |-> t % c]

\* a * b / c for c # 0, rounded toward zero.
MulDiv(a, b, c) ==
    LET x == IF Abs(a) < Abs(b) THEN Abs(a) ELSE Abs(b)
        y == IF Abs(a) < Abs(b) THEN Abs(b) ELSE Abs(a)
        z == Abs(c)
        s == IF (a < 0) = ((b < 0) = (c < 0)) THEN 0 - 1 ELSE 1
        m == IF x = 0 \/ y <= 2147483647 \div x
               THEN Sat((x * y) \div z)
             ELSE LET qy == y \div z
                      p1 == IF qy = 0 THEN 0
                            ELSE IF x > Huge \div qy THEN Huge ELSE x * qy
                  IN  Sat(p1 + MulDivLoop(x, y % z, z).q)
    IN  s * m

\* The integer part of the square root.
RECURSIVE IsqrtFrom(_, _)
IsqrtFrom(n, r) ==
    IF r * r <= n /\ (r + 1) * (r + 1) > n THEN r
    ELSE IsqrtFrom(n, (r + n \div r) \div 2)
Isqrt(n) == IF n <= 0 THEN 0 ELSE IsqrtFrom(n, IF n > 46339 THEN 46339 ELSE n)

\* np.exp(-x) for x >= 0 in 1/1000, in 1e-6: exp(-n) from a table, the
\* fraction by its series.
ExpNeg(x) ==
    LET table == <<1000000, 367879, 135335, 49787, 18316, 6738, 2479, 912,
                   335, 123, 45, 17, 6, 2>>
        n == x \div 1000
        f == x % 1000
        t2 == (f * f) \div 2
        t3 == (t2 * f) \div 3000
        t4 == (t3 * f) \div 4000
        t5 == (t4 * f) \div 5000
        t6 == (t5 * f) \div 6000
        series == 1000000 - 1000 * f + t2 - t3 + t4 - t5 + t6
    IN  IF n >= Len(table) THEN 0 ELSE MulDiv(table[n + 1], series, 1000000)

(* Class constants of LiFePO4Cell.                                         *)
SocOne == 1000000
R1 == 1000000
R2 == 500000
TAU1_MS == 2000
TAU2_MS == 5000
MIN_VOLTAGE == 250000
TEMP_MIN_C == -40000
TEMP_MAX_C == 85000
THERMAL_MASS == 100
THERMAL_RESISTANCE == 2
FADE_FLOOR == 500000
CALENDAR_FADE_LIMIT == 300000
HOUR_MS == 3600000

_OCV_SOC_TABLE_DISCHARGE ==
    <<2862, 2912, 2962, 3012, 3062, 3112, 3124, 3136, 3148, 3160,
      3172, 3183, 3193, 3204, 3215, 3226, 3236, 3247, 3258, 3268,
      3279, 3280, 3280, 3281, 3281, 3282, 3283, 3283, 3284, 3284,
      3285, 3286, 3286, 3287, 3287, 3288, 3289, 3289, 3290, 3290,
      3291, 3292, 3292, 3293, 3293, 3294, 3295, 3295, 3296, 3296,
      3297, 3298, 3298, 3299, 3299, 3300, 3300, 3301, 3302, 3302,
      3303, 3303, 3304, 3304, 3305, 3306, 3306, 3307, 3307, 3308,
      3308, 3309, 3309, 3310, 3311, 3311, 3312, 3312, 3313, 3313,
      3314, 3316, 3317, 3319, 3320, 3322, 3323, 3325, 3326, 3328,
      3329, 3343, 3358, 3372, 3386, 3401, 3415, 3429, 3443, 3458,
      3472>>

_OCV_SOC_TABLE_CHARGE ==
    <<2510, 2560, 2610, 2660, 2710, 2760, 2810, 2860, 2910, 2960,
      3010, 3060, 3110, 3160, 3190, 3210, 3220, 3230, 3240, 3250,
      3260, 3260, 3260, 3260, 3260, 3260, 3260, 3260, 3260, 3260,
      3260, 3260, 3260, 3260, 3260, 3260, 3260, 3260, 3260, 3260,
      3260, 3260, 3260, 3260, 3260, 3260, 3260, 3260, 3260, 3260,
      3260, 3260, 3260, 3260, 3260, 3260, 3260, 3260, 3260, 3260,
      3260, 3260, 3260, 3260, 3260, 3260, 3260, 3260, 3260, 3260,
      3260, 3260, 3260, 3260, 3260, 3260, 3260, 3260, 3260, 3260,
      3260, 3265, 3270, 3275, 3280, 3285, 3290, 3300, 3310, 3320,
      3330, 3340, 3350, 3360, 3370, 3380, 3385, 3390, 3395, 3398,
      3472>>

\* np.interp(soc, self._soc_table, table) for soc in [0, 1], the table in mV.
Interp(soc, table) ==
    LET k == soc \div 10000
    IN  IF k >= 100 THEN 100 * table[101]
        ELSE 100 * table[k + 1]
             + MulDiv(table[k + 2] - table[k + 1], soc - 10000 * k, 100)

\* LiFePO4Cell._update_aging
_update_aging(a) ==
    LET cycles == IF a.cycles > 0 THEN a.cycles ELSE 0
        root == IF cycles <= 200000 THEN Isqrt(10000 * cycles)
                ELSE 100 * Isqrt(cycles)
        cycle_fade_factor ==
            IF SocOne - root > FADE_FLOOR THEN SocOne - root ELSE FADE_FLOOR
        t == a.calendar_aging_time_hours
        aged == t.h > 0 \/ t.ms > 0
        nan == aged /\ (a.storage_temp = NaN \/ a.storage_soc = NaN)
        arrhenius_factor ==
            ExpNeg(MulDiv(3608372, 1000, a.storage_temp + 273150))
        soc_factor ==
            (Isqrt(a.storage_soc) + Isqrt(SocOne - a.storage_soc)) \div 2
        calendar_fade ==
            MulDiv(MulDiv(t.h, arrhenius_factor, 1000000), soc_factor, 1000000)
        calendar_fade_factor ==
            IF ~aged THEN SocOne
            ELSE SocOne - (IF calendar_fade < CALENDAR_FADE_LIMIT
                             THEN calendar_fade ELSE CALENDAR_FADE_LIMIT)
        product == MulDiv(cycle_fade_factor, calendar_fade_factor, SocOne)
        total_fade_factor ==
            IF product > FADE_FLOOR THEN product ELSE FADE_FLOOR
    IN  [a EXCEPT
           !.capacity_actual_ah =
               IF nan THEN NaN
               ELSE MulDiv(a.capacity_nominal_ah, total_fade_factor, SocOne),
           !.resistance_multiplier = 1000 + cycles]

\* LiFePO4Cell.__init__
LiFePO4Cell(capacity_ah, initial_soc, temperature_c, cycles, ambient_temp_c, resistance_multiplier) ==
    _update_aging(
        [capacity_nominal_ah |-> capacity_ah,
         soc |-> Clip(initial_soc, 0, SocOne),
         temperature_c |-> temperature_c,
         ambient_temp_c |-> ambient_temp_c,
         cycles |-> cycles,
         base_resistance_multiplier |->
             IF resistance_multiplier > 100 THEN resistance_multiplier
             ELSE 100,
         v_rc1 |-> 0,
         v_rc2 |-> 0,
         last_current_direction |-> 0,
         hysteresis_soc |-> initial_soc,
         calendar_aging_time_hours |-> [h |-> 0, ms |-> 0],
         last_update_time_hours |-> [h |-> 0, ms |-> 0],
         storage_soc |-> initial_soc,
         storage_temp |-> temperature_c,
         capacity_actual_ah |-> capacity_ah,
         resistance_multiplier |-> 1000])

\* LiFePO4Cell.get_ocv(current_direction=...), soc_pct and temperature_c left
\* None as in every call of the plant; NoneF for no current_direction.
get_ocv(a, current_direction) ==
    LET dir == IF current_direction = NoneF THEN a.last_current_direction
               ELSE current_direction
        sel == IF dir # 0 THEN dir ELSE a.last_current_direction
        ocv_base ==
            IF sel > 0 THEN Interp(a.soc, _OCV_SOC_TABLE_CHARGE)
            ELSE IF sel < 0 THEN Interp(a.soc, _OCV_SOC_TABLE_DISCHARGE)
            ELSE (Interp(a.soc, _OCV_SOC_TABLE_CHARGE)
                  + Interp(a.soc, _OCV_SOC_TABLE_DISCHARGE)) \div 2
    IN  IF a.soc = NaN \/ a.temperature_c = NaN THEN NaN
        ELSE ocv_base - MulDiv(a.temperature_c - 25000, 1, 20)

\* LiFePO4Cell.get_internal_resistance(), both arguments None.
get_internal_resistance(a) ==
    LET r0_base ==
            IF a.soc <= 500000 THEN 700000 - MulDiv(a.soc, 2, 5)
            ELSE 500000 - (a.soc - 500000) \div 4
        f == SocOne - 5 * (a.temperature_c - 25000)
        temp_factor == IF f > 500000 THEN f ELSE 500000
    IN  IF a.soc = NaN \/ a.temperature_c = NaN THEN NaN
        ELSE MulDiv(MulDiv(MulDiv(r0_base, temp_factor, SocOne),
                           a.base_resistance_multiplier, 1000),
                    a.resistance_multiplier, 1000)

\* LiFePO4Cell._update_thermal_model
_update_thermal_model(a, current_ma, dt_ms, ambient_temp_c) ==
    LET ambient == IF ambient_temp_c # NoneF THEN ambient_temp_c
                   ELSE a.ambient_temp_c
        i_ma == MulDiv(current_ma, 1, 1000)
        r0 == get_internal_resistance(a)
        power == MulDiv(MulDiv(i_ma, i_ma, 10000), r0, 10 ^ 8)
        heat_transfer ==
            MulDiv(a.temperature_c - ambient, 1, THERMAL_RESISTANCE)
        dtemp == MulDiv(power - heat_transfer, dt_ms, 1000 * THERMAL_MASS)
    IN  [a EXCEPT
           !.ambient_temp_c = ambient,
           !.temperature_c =
               IF r0 = NaN \/ ambient = NaN THEN NaN
               ELSE Clip(a.temperature_c + dtemp, TEMP_MIN_C, TEMP_MAX_C)]

\* The larger of two numbers.
Max(x, y) == IF x > y THEN x ELSE y

\* LiFePO4Cell.update, Coulomb counting: self._soc after np.clip, for the
\* temperature-dependent capacity_ah; a division by the zero capacity gives
\* nan for a zero charge and an infinity otherwise.
CoulombCount(soc, capacity_ah, current_ma, dt_ms) ==
    LET i_ma == MulDiv(current_ma, 1, 1000)
        den == MulDiv(capacity_ah, 36, 10)
        up == IF capacity_ah = 0 THEN current_ma > 0
              ELSE (current_ma > 0) = (capacity_ah > 0)
    IN  IF soc = NaN \/ capacity_ah = NaN THEN NaN
        ELSE IF capacity_ah = 0
          THEN IF current_ma = 0 \/ dt_ms = 0 THEN NaN
               ELSE IF up THEN SocOne ELSE 0
        ELSE IF den = 0
          THEN IF i_ma = 0 \/ dt_ms = 0 THEN soc
               ELSE IF up THEN SocOne ELSE 0
        ELSE Clip(soc + MulDiv(i_ma, dt_ms, den), 0, SocOne)

\* LiFePO4Cell.update, one RC branch: the voltage v across the capacitor
\* after dt_ms, for the resistance r and time constant tau (ms) scaled by
\* rc_scale_factor.
RcVoltage(v, i_ma, r, tau, rc_scale_factor, dt_ms) ==
    LET exp_factor ==
            ExpNeg(MulDiv(dt_ms, 1000, MulDiv(tau, rc_scale_factor, SocOne)))
    IN  Sat(MulDiv(v, exp_factor, SocOne)
            + MulDiv(MulDiv(i_ma, MulDiv(r, rc_scale_factor, SocOne), 10 ^ 7),
                     SocOne - exp_factor, SocOne))

\* LiFePO4Cell.update, the scale of the RC resistances for a C-rate in 1/1000.
RcScaleFactor(c_rate) ==
    IF c_rate <= 1000 THEN SocOne
    ELSE Max(MulDiv(SocOne, 20000, 20000 + 3 * (c_rate - 1000)), 300000)

\* update without the 2.5 V floor of the terminal voltage.
TerminalVoltageNoFloor(a, i_ma, new_direction) ==
    LET ocv == get_ocv(a, new_direction)
        r0 == get_internal_resistance(a)
    IN  IF a.soc = NaN \/ a.temperature_c = NaN THEN NaN
        ELSE ocv - MulDiv(Abs(i_ma), r0, 10 ^ 7)
             - Abs(a.v_rc1) - Abs(a.v_rc2)

\* LiFePO4Cell.update, the terminal voltage in mV for the updated cell.
TerminalVoltage(a, i_ma, new_direction) ==
    LET ocv == get_ocv(a, new_direction)
        r0 == get_internal_resistance(a)
    IN  IF a.soc = NaN \/ a.temperature_c = NaN THEN NaN
        ELSE Max(ocv - MulDiv(Abs(i_ma), r0, 10 ^ 7)
                 - Abs(a.v_rc1) - Abs(a.v_rc2), MIN_VOLTAGE)

\* LiFePO4Cell.update, calendar aging: the cell a after the rest of update,
\* current_time_hours the calendar time after this step.
CalendarStep(a, current_ma, current_time_hours) ==
    LET a1 == [a EXCEPT
                 !.storage_soc = IF current_ma = 0 THEN a.soc ELSE @,
                 !.storage_temp = a.temperature_c,
                 !.calendar_aging_time_hours = current_time_hours]
        t1 == current_time_hours
        t0 == a.last_update_time_hours
    IN  IF t1.h - t0.h >= 2 \/ (t1.h - t0.h = 1 /\ t1.ms > t0.ms)
          THEN [_update_aging(a1) EXCEPT
                   !.last_update_time_hours = current_time_hours]
          ELSE a1

\* LiFePO4Cell.update after the temperature is set: a1 is the cell with its
\* new temperature and soc the state of charge after Coulomb counting.
UpdateElectrical(a1, soc, current_ma, dt_ms) ==
    LET i_ma == MulDiv(current_ma, 1, 1000)
        new_direction == IF current_ma > 1 THEN 1
                         ELSE IF current_ma < 0 - 1 THEN 0 - 1
                         ELSE 0
        changed == new_direction # 0
                   /\ new_direction # a1.last_current_direction
        rc_scale_factor ==
            RcScaleFactor(IF a1.capacity_nominal_ah > 0
                            THEN MulDiv(Abs(current_ma), 1,
                                        a1.capacity_nominal_ah)
                            ELSE 0)
    IN  [a1 EXCEPT
           !.soc = soc,
           !.hysteresis_soc = IF changed THEN soc ELSE @,
           !.last_current_direction =
               IF new_direction # 0 THEN new_direction ELSE @,
           !.v_rc1 = RcVoltage(@, i_ma, R1, TAU1_MS, rc_scale_factor, dt_ms),
           !.v_rc2 = RcVoltage(@, i_ma, R2, TAU2_MS, rc_scale_factor, dt_ms)]

\* LiFePO4Cell.update, the tuple returned and the cell after the calendar
\* step, for the cell a2 after the electrical update.
UpdateResult(a2, current_ma, dt_ms) ==
    [cell |-> CalendarStep(a2, current_ma,
          [h |-> a2.calendar_aging_time_hours.h
                   + (a2.calendar_aging_time_hours.ms + dt_ms) \div HOUR_MS,
           ms |-> (a2.calendar_aging_time_hours.ms + dt_ms) % HOUR_MS]),
     voltage_mv |->
         TerminalVoltage(a2, MulDiv(current_ma, 1, 1000),
                         IF current_ma > 1 THEN 1
                         ELSE IF current_ma < 0 - 1 THEN 0 - 1
                         ELSE 0),
     soc_pct |-> IF a2.soc = NaN THEN NaN ELSE 100 * a2.soc]

\* LiFePO4Cell.update after the temperature is set.
UpdateFrom(a1, current_ma, dt_ms) ==
    UpdateResult(
        UpdateElectrical(
            a1,
            CoulombCount(a1.soc,
                         IF a1.capacity_actual_ah = NaN
                            \/ a1.temperature_c = NaN THEN NaN
                         ELSE MulDiv(a1.capacity_actual_ah,
                                     SocOne + 5 * (a1.temperature_c - 25000),
                                     SocOne),
                         current_ma, dt_ms),
            current_ma, dt_ms),
        current_ma, dt_ms)

\* LiFePO4Cell.update: the cell after the call and the tuple returned.
Cell_update(a, current_ma, dt_ms, temperature_c, ambient_temp_c) ==
    UpdateFrom(IF temperature_c = NoneF
                 THEN _update_thermal_model(a, current_ma, dt_ms,
                                            ambient_temp_c)
                 ELSE [a EXCEPT !.temperature_c = temperature_c],
               current_ma, dt_ms)

\* LiFePO4Cell.set_aging
set_aging(a, cycles, calendar_aging_hours) ==
    _update_aging(
        [a EXCEPT
           !.cycles = IF cycles > 0 THEN cycles ELSE 0,
           !.calendar_aging_time_hours =
               IF calendar_aging_hours = NoneF THEN @
               ELSE [h |-> IF calendar_aging_hours > 0
                             THEN calendar_aging_hours ELSE 0,
                     ms |-> 0]])

\* LiFePO4Cell.get_state()['voltage_mv']
get_state_voltage_mv(a) == get_ocv(a, NoneF)

\* LiFePO4Cell.reset
Cell_reset(a, soc_pct, temperature_c) ==
    [a EXCEPT
       !.soc = IF soc_pct = NoneF THEN @
               ELSE Clip(MulDiv(soc_pct, 1, 100), 0, SocOne),
       !.temperature_c = IF temperature_c = NoneF THEN @ ELSE temperature_c,
       !.v_rc1 = 0,
       !.v_rc2 = 0,
       !.last_current_direction = 0]

----------------------------------------------------------------------------
(* BatteryPack16S (pack_model.py): 16 cells in series.                     *)

\* BatteryPack16S.__init__ with the default sigmas and resistance range; d
\* holds the variates of its three np.random draws, one per cell.
BatteryPack16S(cell_capacity_ah, initial_soc_pct, ambient_temp_c, thermal_coupling_coeff, d) ==
    LET capacity_variations ==
            [i \in Cells |-> Clip(Normal(SocOne, 4000, d.capacity[i]),
                                  980000, 1020000)]
        initial_soc_per_cell ==
            [i \in Cells |-> Clip(MulDiv(initial_soc_pct, 1, 100)
                                  + Normal(0, 2500, d.soc[i]), 0, SocOne)]
        resistance_variations ==
            [i \in Cells |-> Uniform(975, 1025, d.resistance[i])]
    IN  [cells |-> [i \in Cells |->
                      LiFePO4Cell(MulDiv(cell_capacity_ah,
                                         capacity_variations[i], SocOne),
                                  initial_soc_per_cell[i], ambient_temp_c,
                                  0, 25000, resistance_variations[i])],
         fault_voltages |-> [i \in Cells |-> NoneF],
         fault_temperatures |-> [i \in Cells |-> NoneF],
         ambient_temp_c |-> ambient_temp_c,
         thermal_coupling_coeff |-> thermal_coupling_coeff,
         pack_current_ma |-> 0]

\* BatteryPack16S._apply_thermal_coupling
_apply_thermal_coupling(p, dt_ms) ==
    LET current_temps == [i \in Cells |-> p.cells[i].temperature_c]
        k == p.thermal_coupling_coeff
        flow(i, j) == MulDiv(k, current_temps[i] - current_temps[j], 1000)
        coupling_energy ==
            [i \in Cells |->
                (IF i > 0 THEN 0 - flow(i, i - 1) ELSE 0)
              + (IF i < NUM_CELLS - 1 THEN 0 - flow(i, i + 1) ELSE 0)
              + (IF i < NUM_CELLS - 1 THEN flow(i + 1, i) ELSE 0)
              + (IF i > 0 THEN flow(i - 1, i) ELSE 0)]
        nan(i) == \E j \in Cells :
                     Abs(i - j) <= 1 /\ current_temps[j] = NaN
    IN  [p EXCEPT !.cells =
           [i \in Cells |->
              IF p.fault_temperatures[i] # NoneF THEN @[i]
              ELSE [@[i] EXCEPT !.temperature_c =
                      IF nan(i) THEN NaN
                      ELSE Clip(@ + MulDiv(coupling_energy[i], dt_ms,
                                           1000 * THERMAL_MASS),
                                TEMP_MIN_C, TEMP_MAX_C)]]]

\* BatteryPack16S.update
Pack_update(p, current_ma, dt_ms, ambient_temp_c) ==
    LET ambient == IF ambient_temp_c # NoneF THEN ambient_temp_c
                   ELSE p.ambient_temp_c
    IN  _apply_thermal_coupling(
            [p EXCEPT
               !.ambient_temp_c = ambient,
               !.pack_current_ma = current_ma,
               !.cells = [i \in Cells |->
                            Cell_update(@[i], current_ma, dt_ms,
                                        p.fault_temperatures[i],
                                        ambient).cell]],
            dt_ms)

\* BatteryPack16S.get_cell_voltages without the override of a cell.
GetCellVoltagesNoOverride(p) ==
    [i \in Cells |-> get_state_voltage_mv(p.cells[i])]

\* BatteryPack16S.get_cell_voltages
get_cell_voltages(p) ==
    [i \in Cells |->
       IF p.fault_voltages[i] # NoneF THEN p.fault_voltages[i]
       ELSE get_state_voltage_mv(p.cells[i])]

\* BatteryPack16S.get_cell_temperatures
get_cell_temperatures(p) ==
    [i \in Cells |->
       IF p.fault_temperatures[i] # NoneF THEN p.fault_temperatures[i]
       ELSE p.cells[i].temperature_c]

\* np.sum of the first n entries of an array.
RECURSIVE NpSum(_, _)
NpSum(f, n) ==
    IF n = 0 THEN 0
    ELSE LET s == NpSum(f, n - 1)
         IN  IF s = NaN \/ f[n - 1] = NaN THEN NaN ELSE s + f[n - 1]

\* BatteryPack16S.get_pack_voltage
get_pack_voltage(p) == NpSum(get_cell_voltages(p), NUM_CELLS)

\* BatteryPack16S.set_cell_voltage, cell_index in 0..15
set_cell_voltage(p, cell_index, voltage_mv) ==
    [p EXCEPT !.fault_voltages[cell_index] = voltage_mv]

\* BatteryPack16S.set_cell_temperature, cell_index in 0..15
set_cell_temperature(p, cell_index, temperature_c) ==
    [p EXCEPT !.fault_temperatures[cell_index] = temperature_c]

----------------------------------------------------------------------------
(* SpecPack: a pack and a second pack that is constructed with the same    *)
(* arguments and draws and receives the same update calls.  plant counts   *)
(* the update calls and keeps the cells whose voltage override was active  *)
(* during one of them.                                                     *)

MaxPackUpdates == 2

\* The AFE variables while no AFE is constructed.
NoAFE ==
    /\ clock = 0
    /\ afe = 0
    /\ ret = 0
    /\ call = 0
    /\ hist = 0
    /\ clockB = 0
    /\ afeB = 0
    /\ retB = 0
    /\ np_random = 0
    /\ own_random = 0

\* Two packs built with the same arguments and the same variates (a spread
\* over the cells), at 0 % or 50 % SOC and 25 or 60 degC.
PackInit ==
    /\ NoAFE
    /\ NoComm
    /\ cell = 0
    /\ cellB = 0
    /\ \E s \in {0, 50000000}, t \in {25000, 60000} :
          pack = BatteryPack16S(100000, s, t, 100,
                     [capacity |-> [i \in Cells |-> 2 * (i % 5) - 4],
                      soc |-> [i \in Cells |-> 3 * (i % 3) - 3],
                      resistance |-> [i \in Cells |-> (i * 61) % 1000]])
    /\ packB = pack
    /\ plant = [updates |-> 0, through |-> {}]

\* update, made on both packs.
PackUpdate(currents, dts, ambients, limit) ==
    \E i \in currents, dt \in dts, t \in ambients :
        /\ plant.updates < limit
        /\ pack' = Pack_update(pack, i, dt, t)
        /\ packB' = Pack_update(packB, i, dt, t)
        /\ plant' = [plant EXCEPT
                       !.updates = @ + 1,
                       !.through = @ \cup {c \in Cells :
                                            pack.fault_voltages[c] # NoneF}]
        /\ UNCHANGED <<afeVars, commVars, cell, cellB>>

\* set_cell_voltage, made on the first pack only.
SetCellVoltage(indices, voltages, limit) ==
    \E c \in indices, v \in voltages :
        /\ plant.updates < limit
        /\ pack' = set_cell_voltage(pack, c, v)
        /\ UNCHANGED <<afeVars, commVars, cell, cellB, packB, plant>>

\* set_cell_temperature, made on the first pack and, if twin, on the second.
SetCellTemperature(indices, temperatures, twin, limit) ==
    \E c \in indices, t \in temperatures :
        /\ plant.updates < limit
        /\ pack' = set_cell_temperature(pack, c, t)
        /\ packB' = IF twin THEN set_cell_temperature(packB, c, t) ELSE packB
        /\ UNCHANGED <<afeVars, commVars, cell, cellB, plant>>

NextPack ==
    \/ PackUpdate({0 - 50000000, 0, 50000000}, {1000}, {NoneF}, MaxPackUpdates)
    \/ SetCellVoltage({5}, {NoneF, 370000}, MaxPackUpdates)
    \/ SetCellTemperature({3}, {NoneF, 65000}, TRUE, MaxPackUpdates)

SpecPack == PackInit /\ [][NextPack]_vars

\* C13: a cell with a voltage override reports the override exactly, every
\* other cell reports what it reports in the pack without overrides (so a
\* cell whose override was cleared reports its physics-derived value, however
\* many updates the override was held through), and the pack voltage is the
\* sum with the overrides in place of the overridden cells' values.
C13_VoltageOverrideOnlyReported ==
    LET v == get_cell_voltages(pack)
        vB == get_cell_voltages(packB)
        seen == [i \in Cells |->
                   IF pack.fault_voltages[i] # NoneF
                     THEN pack.fault_voltages[i] ELSE vB[i]]
    IN  /\ \A i \in Cells : v[i] = seen[i]
        /\ get_pack_voltage(pack) = NpSum(seen, NUM_CELLS)
        /\ pack.cells = packB.cells

\* C13 (witness): the override of cell 5 was held through an update and then
\* cleared, after charge or discharge moved the cells.
C13_Witness ==
    /\ 5 \in plant.through
    /\ pack.fault_voltages[5] = NoneF
    /\ plant.updates = MaxPackUpdates
    /\ pack.cells[5].last_current_direction # 0
    /\ get_cell_voltages(pack)[5] = get_cell_voltages(packB)[5]

\* C25: in one update (of 1 s, as every update of this specification) the
\* coupling step changes the temperature of a cell without a temperature
\* override by (k * dt / C) times the sum over its neighbours j of
\* (T_j - T_i), T the temperatures after the cells' own updates (to 0.002
\* degC), and leaves a cell with an override at its temperature.
C25_CouplingExchangesEachPairOnce ==
    [][plant'.updates = plant.updates + 1
         => LET T == [i \in Cells |->
                        Cell_update(pack.cells[i], pack'.pack_current_ma,
                                    1000, pack.fault_temperatures[i],
                                    pack.ambient_temp_c).cell.temperature_c]
                sum == [i \in Cells |->
                          (IF i > 0 THEN T[i - 1] - T[i] ELSE 0)
                        + (IF i < NUM_CELLS - 1 THEN T[i + 1] - T[i] ELSE 0)]
                change == [i \in Cells |->
                             pack'.cells[i].temperature_c - T[i]]
            IN  \A i \in Cells :
                   IF pack.fault_temperatures[i] # NoneF THEN change[i] = 0
                   ELSE Abs(change[i]
                            - MulDiv(MulDiv(pack.thermal_coupling_coeff,
                                            sum[i], 1000),
                                     1000, 1000 * THERMAL_MASS)) <= 2]_vars

\* The pack with temperature overrides next to a pack built and updated the
\* same way without them.
NextPackTemp ==
    \/ PackUpdate({0 - 50000000, 0, 50000000}, {1000}, {NoneF}, MaxPackUpdates)
    \/ SetCellTemperature({3}, {NoneF, 65000}, FALSE, MaxPackUpdates)

SpecPackTemp == PackInit /\ [][NextPackTemp]_vars

\* C14: a temperature override changes the reported temperature of its cell
\* only: the cells' state is that of the pack without overrides, and every
\* cell without an override reports the temperature it reports there.
C14_TemperatureOverrideOnlyReported ==
    /\ pack.cells = packB.cells
    /\ \A i \in Cells :
          get_cell_temperatures(pack)[i] =
              IF pack.fault_temperatures[i] # NoneF
                THEN pack.fault_temperatures[i]
                ELSE get_cell_temperatures(packB)[i]

\* C15: every reported voltage of a cell without a voltage override is at
\* least 2500 mV.
C15_ReportedVoltageAtLeastFloor ==
    \A i \in Cells :
        pack.fault_voltages[i] = NoneF
            => get_cell_voltages(pack)[i] >= MIN_VOLTAGE

----------------------------------------------------------------------------
(* SpecCell: one LiFePO4Cell driven through update, set_aging and reset.   *)
(* From a reset on, cellB is a cell freshly constructed with the           *)
(* constructor's arguments at the SOC and temperature of the reset, given  *)
(* the same update calls.  plant keeps the number of calls, the results of *)
(* the last update of both cells, whether there is a cellB (twin), and     *)
(* whether the cell is fresh (no call                                      *)
(* made on it yet) or was fresh at 0 % SOC before its only call, an update *)
(* of 10 s at 100 A discharge, and the current_ma of the call if it was an *)
(* update.                                                                 *)

MaxCellSteps == 2

NoResult == [voltage_mv |-> NoneF, soc_pct |-> NoneF]

CellInit ==
    /\ NoAFE
    /\ NoComm
    /\ pack = 0
    /\ packB = 0
    /\ \E s \in {0, 500000}, t \in {25000, 0 - 20000} :
          cell = LiFePO4Cell(100000, s, t, 0, 25000, 1000)
    /\ cellB = 0
    /\ plant = [steps |-> 0, ret |-> NoResult, retB |-> NoResult,
                fresh |-> TRUE, soc_limit |-> FALSE, twin |-> FALSE,
                current_ma |-> NoneF]

\* update(current_ma, dt_ms, temperature_c, ambient_temp_c), made on the
\* fresh cell too once there is one.
CellUpdate(currents, dts, temperatures, ambients, limit) ==
    \E i \in currents, dt \in dts, t \in temperatures, amb \in ambients :
        LET r == Cell_update(cell, i, dt, t, amb)
        IN  /\ plant.steps < limit
            /\ t = NoneF \/ amb = NoneF
            /\ cell' = r.cell
            /\ cellB' = IF ~plant.twin THEN cellB
                        ELSE Cell_update(cellB, i, dt, t, amb).cell
            /\ plant' = [steps |-> plant.steps + 1,
                         ret |-> [voltage_mv |-> r.voltage_mv,
                                  soc_pct |-> r.soc_pct],
                         retB |-> IF ~plant.twin THEN NoResult
                                  ELSE LET rB == Cell_update(cellB, i, dt, t,
                                                             amb)
                                       IN  [voltage_mv |-> rB.voltage_mv,
                                            soc_pct |-> rB.soc_pct],
                         fresh |-> FALSE,
                         soc_limit |-> /\ plant.fresh
                                       /\ cell.soc = 0
                                       /\ i = 0 - 100000000
                                       /\ dt = 10000
                                       /\ t = NoneF
                                       /\ amb = NoneF,
                         twin |-> plant.twin,
                         current_ma |-> i]
            /\ UNCHANGED <<afeVars, commVars, pack, packB>>

\* set_aging(cycles, calendar_aging_hours), before any reset.
CellSetAging(cycles, hours, limit) ==
    \E n \in cycles, h \in hours :
        /\ plant.steps < limit
        /\ ~plant.twin
        /\ cell' = set_aging(cell, n, h)
        /\ plant' = [plant EXCEPT !.steps = @ + 1, !.fresh = FALSE,
                                  !.soc_limit = FALSE,
                                  !.current_ma = NoneF]
        /\ UNCHANGED <<afeVars, commVars, cellB, pack, packB>>

\* reset(soc_pct, temperature_c); cellB becomes LiFePO4Cell(initial_soc =
\* soc_pct / 100, temperature_c = temperature_c) with the other arguments of
\* the constructor as in CellInit.
CellReset(socs, temperatures, limit) ==
    \E s \in socs, t \in temperatures :
        /\ plant.steps < limit
        /\ ~plant.fresh
        /\ cell' = Cell_reset(cell, s, t)
        /\ cellB' = LiFePO4Cell(100000, MulDiv(s, 1, 100), t, 0, 25000, 1000)
        /\ plant' = [plant EXCEPT !.ret = NoResult, !.retB = NoResult,
                                  !.soc_limit = FALSE, !.twin = TRUE,
                                  !.current_ma = NoneF]
        /\ UNCHANGED <<afeVars, commVars, pack, packB>>

NextCell ==
    \/ CellUpdate({0 - 100000000, 0, 500, 50000000}, {10000},
                  {NoneF, 0 - 175000}, {NoneF, 60000}, MaxCellSteps)
    \/ CellSetAging({0 - 5, 10 ^ 8}, {NoneF, 2 * (10 ^ 9)}, MaxCellSteps)
    \/ CellReset({0}, {25000}, MaxCellSteps)

SpecCell == CellInit /\ [][NextCell]_vars

\* C16: the cell's soc lies in [0, 1] and the SOC percent returned by the
\* last update lies in [0, 100].
C16_SocWithinRange ==
    /\ cell.soc >= 0
    /\ cell.soc <= SocOne
    /\ plant.ret # NoResult
         => plant.ret.soc_pct >= 0 /\ plant.ret.soc_pct <= 100 * SocOne

\* C17: the cell's temperature_c lies in [-40, 85] degC.
C17_TemperatureWithinRange ==
    /\ cell.temperature_c >= TEMP_MIN_C
    /\ cell.temperature_c <= TEMP_MAX_C

\* C18: a cell constructed at 0 % SOC and driven with 100 A discharge for
\* 10 s is left at soc exactly 0 and update returns a terminal voltage of at
\* least 2500 mV; no update returns a voltage that is below 2500 mV.
C18_SocLimitVoltageAtLeastFloor ==
    /\ plant.soc_limit
         => cell.soc = 0 /\ plant.ret.voltage_mv >= MIN_VOLTAGE
    /\ ~ /\ plant.ret.voltage_mv # NoneF
         /\ plant.ret.voltage_mv # NaN
         /\ plant.ret.voltage_mv < MIN_VOLTAGE

\* C18 (witness): the cell constructed at 0 % SOC and 25 degC after the 10 s
\* at 100 A discharge: soc 0, and 2649.35 mV returned.
C18_Witness ==
    /\ plant.soc_limit
    /\ cell.soc = 0
    /\ plant.ret.voltage_mv = 264935

\* C18 (as stated): after the 10 s at 100 A discharge from 0 % SOC soc is
\* exactly 0 and the returned terminal voltage is exactly 2500 mV.
C18_SocLimitVoltageExactlyFloor ==
    plant.soc_limit
        => cell.soc = 0 /\ plant.ret.voltage_mv = MIN_VOLTAGE

\* C19: capacity_actual_ah >= 0.5 * capacity_nominal_ah and the aging
\* resistance_multiplier >= 1.
C19_AgingLimits ==
    /\ cell.capacity_actual_ah # NaN
    /\ 2 * cell.capacity_actual_ah >= cell.capacity_nominal_ah
    /\ cell.resistance_multiplier >= 1000

\* C20: after a reset every update returns what the same update returns on
\* the freshly constructed cell.
C20_ResetReproducesFreshCell ==
    plant.twin => plant.ret = plant.retB

\* C21: for the fresh cell at 50 % SOC and 25 degC, whose rest open-circuit
\* voltage is v0, an update with a charging current returns a terminal
\* voltage above v0 and an update with a discharging current one below v0
\* (currents of at least 1 mA).
C21_ChargeAboveDischargeBelowRestOcv ==
    [][(/\ plant.fresh
        /\ cell.soc = 500000
        /\ cell.temperature_c = 25000
        /\ plant'.current_ma # NoneF)
          => /\ plant'.current_ma >= 1000
                  => plant'.ret.voltage_mv > get_ocv(cell, NoneF)
             /\ plant'.current_ma <= 0 - 1000
                  => plant'.ret.voltage_mv < get_ocv(cell, NoneF)]_vars

\* C24: an update with |I| < 1 mA leaves last_current_direction and
\* hysteresis_soc unchanged.
C24_DeadZoneOneMilliamp ==
    [][(plant'.current_ma # NoneF /\ Abs(plant'.current_ma) < 1000)
          => /\ cell'.last_current_direction = cell.last_current_direction
             /\ cell'.hysteresis_soc = cell.hysteresis_soc]_vars

----------------------------------------------------------------------------
(* SpecReset: every mutator of the instance, then reset.  afeB stays the   *)
(* instance as it was constructed.                                         *)


NextReset ==
    \/ StartSimulation(MaxStatusMeasurements)
    \/ SetCrcErrorRate({0, 500}, MaxStatusMeasurements)
    \/ ScheduleFault({NTC_SHORT}, {{3}}, {1}, {NoneT},
                     MaxSchedule, MaxStatusMeasurements)
    \/ InjectFault({OPEN_WIRE, STUCK_ADC, NTC_OPEN, CURRENT_SENSOR_FAULT},
                   {{3}}, {NoneT}, FALSE, MaxStatusMeasurements)
    \/ ApplyMeasurement({NominalCall, [NominalCall EXCEPT !.u_crc = 999]},
                        {0}, MaxStatusMeasurements)
    \/ Reset

SpecReset == InitSched /\ [][NextReset]_vars

\* C11: from every reachable state reset() leaves the three fault masks
\* empty, the captured stuck-ADC values cleared, the current-sensor fault
\* off, crc_error_rate 0, the fault schedule empty, status_flags 0 and both
\* counters 0, with every calibration gain and offset (and the noise
\* configuration) unchanged: the instance is again as it was constructed.
C11_ResetRestoresConstructedState ==
    LET r == reset(afe)
    IN  /\ r.open_wire_mask = {}
        /\ r.stuck_adc_mask = {}
        /\ r.ntc_fault_mask = {}
        /\ r.stuck_adc_values = [i \in Cells |-> 0]
        /\ ~r.current_sensor_fault
        /\ r.crc_error_rate = 0
        /\ r.fault_schedule = << >>
        /\ r.status_flags = {}
        /\ r.measurement_count = 0
        /\ r.crc_error_count = 0
        /\ r.voltage_gain_errors = afe.voltage_gain_errors
        /\ r.voltage_offsets_mv = afe.voltage_offsets_mv
        /\ r.temp_offsets_c = afe.temp_offsets_c
        /\ r.current_gain_error = afe.current_gain_error
        /\ r.current_offset_ma = afe.current_offset_ma
        /\ r = afeB

\* C11 (witness): a state with all three masks set, a captured stuck-ADC
\* value, the current-sensor fault on, a positive CRC error rate, a pending
\* schedule entry, a non-zero status word, both counters positive and a
\* non-trivial calibration, from which reset() restores the constructed
\* instance.
C11_Witness ==
    /\ afe.open_wire_mask # {}
    /\ afe.stuck_adc_mask # {}
    /\ afe.ntc_fault_mask # {}
    /\ afe.stuck_adc_values[0] # 0
    /\ afe.current_sensor_fault
    /\ afe.crc_error_rate > 0
    /\ afe.fault_schedule # << >>
    /\ afe.status_flags # {}
    /\ afe.measurement_count > 0
    /\ afe.crc_error_count > 0
    /\ afe.start_time_ms # NoneT
    /\ afe.voltage_offsets_mv[3] # 0
    /\ reset(afe) = afeB

----------------------------------------------------------------------------
(* SpecArgs: the mutators called with invalid arguments (an unknown fault  *)
(* type, no cell mask, the cell mask 0x10008 with bit 16 set, a CRC error  *)
(* rate outside [0, 1]).  A call that raises leaves ret as the record of   *)
(* the exception and of the call that raised it.                           *)

\* inject_fault raises ValueError: a string that names no fault type, or a
\* per-cell kind without a cell mask.
InjectFaultRaises(fault_type, cell_mask) ==
    \/ fault_type \notin FaultType
    \/ /\ fault_type \in {OPEN_WIRE, STUCK_ADC, NTC_OPEN, NTC_SHORT}
       /\ cell_mask = NoneMask

\* The loop of _update_fault_schedule up to the first due event whose
\* inject_fault raises: the events before it have acted on the instance and
\* on their entries, and self._fault_schedule is not reassigned.
RECURSIVE ScheduleLoopUntilRaise(_, _, _, _)
ScheduleLoopUntilRaise(a, i, current_time, now) ==
    IF i > Len(a.fault_schedule)
      THEN [afe |-> a, raised |-> FALSE]
    ELSE
      LET ev == a.fault_schedule[i]
          due == /\ "inject_time_ms" \in DOMAIN ev
                 /\ ~ev.injected
                 /\ current_time >= ev.inject_time_ms
      IN  IF due /\ InjectFaultRaises(ev.fault_type, ev.cell_mask)
            THEN [afe |-> a, raised |-> TRUE]
          ELSE
            LET a1 == IF due
                        THEN inject_fault(a, ev.fault_type, ev.cell_mask,
                                          ev.duration_ms, now)
                        ELSE a
                ev1 == IF due THEN [ev EXCEPT !.injected = TRUE] ELSE ev
                a2 == [a1 EXCEPT !.fault_schedule[i] = ev1]
                cleared == /\ ~(due /\ ev.duration_ms = NoneT)
                           /\ "clear_time_ms" \in DOMAIN ev1
                           /\ current_time >= ev1.clear_time_ms
            IN  ScheduleLoopUntilRaise(
                    IF cleared
                      THEN clear_fault(a2, ev1.fault_type, ev1.cell_mask)
                      ELSE a2,
                    i + 1, current_time, now)

\* apply_measurement when _update_fault_schedule raises: the measurement is
\* counted, nothing is processed and nothing is returned.
ApplyMeasurementRaises(limit) ==
    LET a1 == [afe EXCEPT !.measurement_count = @ + 1]
        res == ScheduleLoopUntilRaise(a1, 1, _get_current_time_ms(a1, clock),
                                      clock)
    IN  /\ afe.measurement_count < limit
        /\ res.raised
        /\ afe' = res.afe
        /\ ret' = [raised |-> "ValueError", by |-> "apply_measurement"]
        /\ UNCHANGED <<clock, call, hist, clockB, afeB, retB, np_random,
                       own_random,
                       plantVars, commVars>>

\* inject_fault, clear_fault and set_crc_error_rate called with an argument
\* they reject: the call raises before it assigns anything.
RejectedCall(kinds, masks, rates, limit) ==
    /\ afe.measurement_count < limit
    /\ \/ \E ft \in kinds, m \in masks :
             /\ InjectFaultRaises(ft, m)
             /\ ret' = [raised |-> "ValueError", by |-> "inject_fault"]
       \/ \E ft \in kinds :
             /\ ft \notin FaultType
             /\ ret' = [raised |-> "ValueError", by |-> "clear_fault"]
       \/ \E rate \in rates :
             /\ ~(0 <= rate /\ rate <= 1000)
             /\ ret' = [raised |-> "ValueError", by |-> "set_crc_error_rate"]
    /\ UNCHANGED <<clock, afe, call, hist, clockB, afeB, retB, np_random,
                   own_random,
                       plantVars, commVars>>

\* The calls are made with the kinds open_wire, current_sensor_fault and
\* "bogus", and with the cell masks 0x10008 and None.
NextArgs ==
    \/ RejectedCall({OPEN_WIRE, CURRENT_SENSOR_FAULT, "bogus"},
                    {{3, 16}, NoneMask}, {0 - 1, 500, 1001},
                    MaxStatusMeasurements)
    \/ \E ft \in {OPEN_WIRE, CURRENT_SENSOR_FAULT, "bogus"},
          m \in {{3, 16}, NoneMask} :
          /\ ~InjectFaultRaises(ft, m)
          /\ InjectFault({ft}, {m}, {NoneT}, FALSE, MaxStatusMeasurements)
    \/ ClearFault({OPEN_WIRE, CURRENT_SENSOR_FAULT}, {{3, 16}, NoneMask},
                  MaxStatusMeasurements)
    \/ ScheduleFault({OPEN_WIRE, CURRENT_SENSOR_FAULT, "bogus"},
                     {{3, 16}, NoneMask}, {0}, {NoneT}, MaxSchedule,
                     MaxStatusMeasurements)
    \/ /\ ~ScheduleLoopUntilRaise(afe, 1, _get_current_time_ms(afe, clock),
                                  clock).raised
       /\ ApplyMeasurement({NominalCall, [NominalCall EXCEPT !.u_crc = 999]},
                           {0}, MaxStatusMeasurements)
    \/ ApplyMeasurementRaises(MaxStatusMeasurements)
    \/ Reset

SpecArgs == InitSched /\ [][NextArgs]_vars

\* C12: a ValueError for an invalid argument is raised by the mutator that
\* received the argument, never by a later apply_measurement acting on a
\* scheduled event that schedule_fault accepted.
C12_InvalidArgumentRejectedByReceivingCall ==
    "raised" \in DOMAIN ret => ret.by # "apply_measurement"

\* C26: the open_wire, stuck_adc and ntc_fault masks have bits 0..15 only,
\* and status_flags bits 0..31 only.
C26_MasksFitSixteenBits ==
    /\ afe.open_wire_mask \subseteq Cells
    /\ afe.stuck_adc_mask \subseteq Cells
    /\ afe.ntc_fault_mask \subseteq Cells
    /\ afe.status_flags \subseteq 0 .. 31

----------------------------------------------------------------------------
(* UARTTransmitter (src/pc_simulator/communication/uart_tx.py).            *)
(*                                                                         *)
(* The instance is a record of its attributes: _serial_open stands for     *)
(* "_serial is not None and _serial.is_open", _tx_queue is the sequence of *)
(* the frames queued, a frame being the sequence number it was encoded     *)
(* with, _lock is held while a stop() waits in join().  Threads are        *)
(* numbered in the order of their creation: at[w] is the position of the   *)
(* worker w in _tx_thread_worker ("loop" at the test of the stop event,    *)
(* "get" in queue.get, "send" with a frame dequeued, "done" once it has    *)
(* returned), alive the set of those that have not returned.  The         *)
(* outcomes of the serial port are arguments: opens[k] tells whether the   *)
(* k-th _open_serial_port of a call succeeds, writes[k] what its k-th      *)
(* write does ("ok", "timeout" for a SerialTimeoutException, a short write *)
(* or a SerialException, "error" for any other exception).  The history    *)
(* fields are accepted (frames for which send_frame returned True),        *)
(* written and failed (frames the worker wrote, gave up), processed (the   *)
(* frames the worker is done with), calls, last_op and last_ret (the calls *)
(* made on the instance, the latest and what it returned).                 *)

DEFAULT_RETRY_MAX == 3
MaxCalls == 4

UARTTransmitter(retry_max) ==
    [_retry_max |-> retry_max,
     _serial_open |-> FALSE,
     _tx_thread |-> 0,
     _tx_queue |-> <<>>,
     _stop_event |-> FALSE,
     _lock |-> FALSE,
     _sent_count |-> 0,
     _error_count |-> 0,
     _sequence |-> 0,
     at |-> <<>>,
     holding |-> <<>>,
     alive |-> {},
     accepted |-> <<>>,
     written |-> <<>>,
     failed |-> <<>>,
     processed |-> 0,
     calls |-> 0,
     last_op |-> "none",
     last_ret |-> FALSE]

\* The loop of _send_frame_with_retry from the given attempt on, and the
\* statements after it.
RECURSIVE SendAttempts(_, _, _, _)
SendAttempts(t, attempt, opens, writes) ==
    LET gave_up == [ok |-> FALSE, t |-> [t EXCEPT !._error_count = @ + 1]]
    IN  IF attempt >= t._retry_max THEN gave_up
        ELSE IF writes[attempt + 1] = "ok" THEN [ok |-> TRUE, t |-> t]
        ELSE IF writes[attempt + 1] = "error" THEN gave_up
        ELSE IF attempt >= t._retry_max - 1
          THEN SendAttempts(t, attempt + 1, opens, writes)
        ELSE IF opens[attempt + 2]
          THEN SendAttempts(t, attempt + 1, opens, writes)
        ELSE [ok |-> FALSE,
              t |-> [t EXCEPT !._serial_open = FALSE,
                              !._error_count = @ + 1]]

_send_frame_with_retry(t, opens, writes) ==
    IF ~t._serial_open /\ ~opens[1] THEN [ok |-> FALSE, t |-> t]
    ELSE SendAttempts([t EXCEPT !._serial_open = TRUE], 0, opens, writes)

\* One step of the worker thread w.
_tx_thread_worker(w) ==
    /\ w \in tx.alive
    /\ \/ /\ tx.at[w] = "loop"
          /\ tx' = IF tx._stop_event
                     THEN [tx EXCEPT !.at[w] = "done",
                                     !.alive = @ \ {w},
                                     !._serial_open = FALSE]
                   ELSE [tx EXCEPT !.at[w] = "get"]
       \/ /\ tx.at[w] = "get"
          /\ tx' = IF tx._tx_queue = <<>>
                     THEN [tx EXCEPT !.at[w] = "loop"]
                   ELSE [tx EXCEPT !.at[w] = "send",
                                   !.holding[w] = Head(tx._tx_queue),
                                   !._tx_queue = Tail(@)]
       \/ /\ tx.at[w] = "send"
          /\ \E opens \in [1 .. tx._retry_max -> BOOLEAN],
                writes \in [1 .. tx._retry_max -> {"ok", "timeout", "error"}] :
                LET res == _send_frame_with_retry(tx, opens, writes)
                    f == tx.holding[w]
                IN  tx' = [res.t EXCEPT
                             !._sent_count = IF res.ok THEN @ + 1 ELSE @,
                             !._error_count = IF res.ok THEN @ ELSE @ + 1,
                             !.at[w] = "loop",
                             !.written = IF res.ok THEN Append(@, f) ELSE @,
                             !.failed = IF res.ok THEN @ ELSE Append(@, f),
                             !.processed = @ + 1]
    /\ UNCHANGED <<afeVars, plantVars, profile, frame>>

\* send_frame, called with data that validate_afe_meas_data and the encoder
\* accept, or not.
send_frame ==
    /\ tx.calls < MaxCalls
    /\ \E valid \in BOOLEAN :
          tx' = IF ~valid
                  THEN [tx EXCEPT !._error_count = @ + 1,
                                  !.calls = @ + 1,
                                  !.last_op = "send_frame", !.last_ret = FALSE]
                ELSE [tx EXCEPT !._sequence = (@ + 1) % 65536,
                                !._tx_queue = Append(@, tx._sequence),
                                !.accepted = Append(@, tx._sequence),
                                !.calls = @ + 1,
                                !.last_op = "send_frame", !.last_ret = TRUE]
    /\ UNCHANGED <<afeVars, plantVars, profile, frame>>

\* start without the test of the running worker.
StartUnchecked ==
    /\ tx.calls < MaxCalls
    /\ ~tx._lock
    /\ \E opened \in BOOLEAN :
          tx' = IF ~tx._serial_open /\ ~opened
                  THEN [tx EXCEPT !.calls = @ + 1,
                                  !.last_op = "start", !.last_ret = FALSE]
                ELSE [tx EXCEPT !._serial_open = TRUE,
                                !._stop_event = FALSE,
                                !._tx_thread = Len(tx.at) + 1,
                                !.at = Append(@, "loop"),
                                !.holding = Append(@, 0),
                                !.alive = @ \cup {Len(tx.at) + 1},
                                !.calls = @ + 1,
                                !.last_op = "start", !.last_ret = TRUE]
    /\ UNCHANGED <<afeVars, plantVars, profile, frame>>

\* start, made under the lock.
start ==
    /\ tx.calls < MaxCalls
    /\ ~tx._lock
    /\ \E opened \in BOOLEAN :
          tx' = IF tx._tx_thread # 0 /\ tx._tx_thread \in tx.alive
                  THEN [tx EXCEPT !.calls = @ + 1,
                                  !.last_op = "start", !.last_ret = FALSE]
                ELSE IF ~tx._serial_open /\ ~opened
                  THEN [tx EXCEPT !.calls = @ + 1,
                                  !.last_op = "start", !.last_ret = FALSE]
                ELSE [tx EXCEPT !._serial_open = TRUE,
                                !._stop_event = FALSE,
                                !._tx_thread = Len(tx.at) + 1,
                                !.at = Append(@, "loop"),
                                !.holding = Append(@, 0),
                                !.alive = @ \cup {Len(tx.at) + 1},
                                !.calls = @ + 1,
                                !.last_op = "start", !.last_ret = TRUE]
    /\ UNCHANGED <<afeVars, plantVars, profile, frame>>

\* stop: it takes the lock, returns at once without a running worker, and
\* else sets the stop event and waits in join(timeout=2.0); the join returns
\* when the worker has returned or at the timeout, and stop closes the port
\* and releases the lock.
stop ==
    /\ \/ /\ tx.calls < MaxCalls
          /\ ~tx._lock
          /\ tx' = IF tx._tx_thread = 0 \/ tx._tx_thread \notin tx.alive
                     THEN [tx EXCEPT !.calls = @ + 1,
                                     !.last_op = "stop", !.last_ret = FALSE]
                   ELSE [tx EXCEPT !._stop_event = TRUE,
                                   !._lock = TRUE,
                                   !.calls = @ + 1,
                                   !.last_op = "stop", !.last_ret = FALSE]
       \/ /\ tx._lock
          /\ tx' = [tx EXCEPT !._lock = FALSE, !._serial_open = FALSE]
    /\ UNCHANGED <<afeVars, plantVars, profile, frame>>

TxInit ==
    /\ NoAFE
    /\ NoPlant
    /\ profile = 0
    /\ frame = 0
    /\ tx = UARTTransmitter(DEFAULT_RETRY_MAX)

NextTx ==
    \/ start
    \/ stop
    \/ send_frame
    \/ \E w \in 1 .. MaxCalls : _tx_thread_worker(w)

SpecTx == TxInit /\ [][NextTx]_vars

\* The worker threads run, and a join returns, whatever the callers do.
SpecTxLive ==
    /\ SpecTx
    /\ \A w \in 1 .. MaxCalls : WF_vars(_tx_thread_worker(w))
    /\ WF_vars(tx._lock /\ stop)

\* C22: in any interleaving of start() and stop() calls at most one worker
\* thread is alive at any time, and a start() called while a worker is alive
\* returns False and leaves the worker and _tx_thread as they are.
C22_AtMostOneWorker ==
    [][/\ Cardinality(tx'.alive) <= 1
       /\ (tx'.calls = tx.calls + 1 /\ tx'.last_op = "start" /\ tx.alive # {})
             => /\ ~tx'.last_ret
                /\ tx'._tx_thread = tx._tx_thread
                /\ tx'.alive = tx.alive
                /\ tx'.at = tx.at]_vars

\* C22 (witness): a stop() has given up its join with the worker still
\* sending, and the start() called next has returned False with that worker
\* alive.
C22_Witness ==
    /\ tx.last_op = "start"
    /\ ~tx.last_ret
    /\ tx._stop_event
    /\ ~tx._lock
    /\ tx.alive = {tx._tx_thread}
    /\ tx.at[tx._tx_thread] = "send"

\* C28: each frame the worker dequeues is counted exactly once: in
\* sent_count if a write succeeds, else once in error_count.
C28_FrameCountedOnce ==
    [][tx'.processed = tx.processed + 1
         => \/ /\ tx'._sent_count = tx._sent_count + 1
               /\ tx'._error_count = tx._error_count
            \/ /\ tx'._sent_count = tx._sent_count
               /\ tx'._error_count = tx._error_count + 1]_vars

\* C29: every frame for which send_frame returned True on a transmitter that
\* was started is eventually written or counted as an error.
C29_AcceptedFrameEventuallyAccounted ==
    \A f \in 0 .. MaxCalls - 1 :
        (/\ \E i \in DOMAIN tx.accepted : tx.accepted[i] = f
         /\ tx._tx_thread # 0)
          ~> \/ \E i \in DOMAIN tx.written : tx.written[i] = f
             \/ \E i \in DOMAIN tx.failed : tx.failed[i] = f

----------------------------------------------------------------------------
(* AFEMeasFrame.decode (src/pc_simulator/communication/protocol.py).       *)
(*                                                                         *)
(* A byte string is the sequence of its bytes (frame[k] of Python is       *)
(* bytes[k + 1]).  The value of a decode is a record: kind is "None" for   *)
(* a returned None, "struct.error" for that exception leaving the call,    *)
(* "dict" for a returned dictionary, of which the sequence is kept and the *)
(* 36 unpacked values are kept as the 80 bytes they are unpacked from.     *)

SOF == 165
EOF == 170
MSG_ID_AFE_MEAS == 1
PAYLOAD_SIZE == 80

\* a ^ b of two non-negative integers.
RECURSIVE BitXor(_, _)
BitXor(a, b) ==
    IF a = 0 THEN b
    ELSE IF b = 0 THEN a
    ELSE ((a + b) % 2) + 2 * BitXor(a \div 2, b \div 2)

\* The inner loop of crc16_ccitt, n more times.
RECURSIVE CrcBits(_, _)
CrcBits(crc, n) ==
    IF n = 0 THEN crc
    ELSE CrcBits((IF crc >= 32768 THEN BitXor(crc * 2, 4129) ELSE crc * 2)
                    % 65536, n - 1)

\* The loop over the bytes runs over the first half of the data, then over
\* the second half from the value the first half left.
RECURSIVE crc16_ccitt(_, _)
crc16_ccitt(data, initial) ==
    LET half == Len(data) \div 2
        crc == crc16_ccitt(SubSeq(data, 1, half), initial)
    IN  IF data = <<>> THEN initial
        ELSE IF Len(data) = 1
          THEN CrcBits(BitXor(initial, data[1] * 256), 8)
        ELSE IF crc > 65535 THEN crc % 65536
        ELSE crc16_ccitt(SubSeq(data, half + 1, Len(data)), crc)

\* The byte string that encode assembles from its header fields and payload,
\* here from any fields: crc_xor is XORed into the CRC, sof and eof are the
\* bytes put at both ends.
Frame(sof, msg_id, length, seq, payload, crc_xor, eof) ==
    LET crc_data == <<msg_id, length, seq % 256, seq \div 256>> \o payload
        crc == BitXor(crc16_ccitt(crc_data, 65535), crc_xor)
    IN  <<sof>> \o crc_data \o <<crc % 256, crc \div 256, eof>>

decode(bytes) ==
    LET length == bytes[3]
        seq == bytes[4] + 256 * bytes[5]
        payload == SubSeq(bytes, 6, 5 + length)
        expected_crc == crc16_ccitt(SubSeq(bytes, 2, 5 + length), 65535)
        received_crc == bytes[6 + length] + 256 * bytes[7 + length]
    IN  IF Len(bytes) < 7 THEN [kind |-> "None"]
        ELSE IF bytes[1] # SOF \/ bytes[Len(bytes)] # EOF
          THEN [kind |-> "None"]
        ELSE IF bytes[2] # MSG_ID_AFE_MEAS THEN [kind |-> "None"]
        ELSE IF Len(bytes) # 1 + 4 + length + 2 + 1 THEN [kind |-> "None"]
        ELSE IF expected_crc # received_crc THEN [kind |-> "None"]
        ELSE IF Len(payload) # PAYLOAD_SIZE
          THEN [kind |-> "struct.error"]
        ELSE [kind |-> "dict", sequence |-> seq, payload |-> payload]

\* A byte string to decode: a frame with a payload of size bytes, with or
\* without the right markers, message id, length field and CRC, whole or cut
\* to its first six bytes.  It is valid when it is what encode produces.
FrameInit ==
    /\ NoAFE
    /\ NoPlant
    /\ profile = 0
    /\ tx = 0
    /\ \E sof \in {SOF, 0}, eof \in {EOF, 0}, msg_id \in {MSG_ID_AFE_MEAS, 2},
          length \in {0, 1, PAYLOAD_SIZE}, size \in {0, 1, PAYLOAD_SIZE},
          seq \in {0, 513}, crc_xor \in {0, 1}, cut \in BOOLEAN :
          LET whole == Frame(sof, msg_id, length, seq,
                             [k \in 1 .. size |-> (7 * k) % 256], crc_xor, eof)
          IN  frame = [bytes |-> IF cut THEN SubSeq(whole, 1, 6) ELSE whole,
                       valid |-> /\ sof = SOF
                                 /\ eof = EOF
                                 /\ msg_id = MSG_ID_AFE_MEAS
                                 /\ length = PAYLOAD_SIZE
                                 /\ size = PAYLOAD_SIZE
                                 /\ crc_xor = 0
                                 /\ ~cut,
                       decoded |-> FALSE,
                       ret |-> [kind |-> "None"]]

Decode ==
    /\ ~frame.decoded
    /\ frame' = [frame EXCEPT !.decoded = TRUE, !.ret = decode(frame.bytes)]
    /\ UNCHANGED <<afeVars, plantVars, profile, tx>>

SpecFrame == FrameInit /\ [][Decode]_vars

\* C27: decode returns None, and does not raise, for every byte string that
\* is not a valid AFE_MEAS_FRAME.
C27_InvalidFrameDecodesToNone ==
    (frame.decoded /\ ~frame.valid) => frame.ret.kind = "None"

----------------------------------------------------------------------------
(* CurrentProfile (src/pc_simulator/plant/current_profile.py).             *)
(*                                                                         *)
(* Times are in ms, float('inf') is Huge, currents in A are in 0.001 A and *)
(* the currents returned in mA are in 0.001 mA, fractions (duty cycle) in  *)
(* 1/1000.  The keyword arguments of the constructor are a record, a YAML  *)
(* file is the pair of its duration_sec and of its segments, in the order  *)
(* of the file, each segment the triple of the two ends of its time_range  *)
(* and its current_a; an attribute that was never assigned is NoneF, and   *)
(* the dynamic function is a ramp given by its slope in A per second.  A   *)
(* call that raises is reported with what it has assigned until then.      *)

CurrentProfile(profile_type, smooth_transitions, transition_duration_sec, kwargs) ==
    LET base == [_profile_type |-> profile_type,
                 _smooth_transitions |-> smooth_transitions,
                 _transition_duration_sec |-> transition_duration_sec,
                 _duration_sec |-> 0,
                 _segments |-> <<>>,
                 _dynamic_function |-> NoneF,
                 _current_a |-> NoneF,
                 _current_high_a |-> NoneF,
                 _current_low_a |-> NoneF,
                 _period_sec |-> NoneF,
                 _phase_sec |-> NoneF,
                 _high_duration_sec |-> NoneF]
        duration == IF kwargs.duration_sec = NoneF THEN Huge
                    ELSE kwargs.duration_sec
    IN  IF profile_type = "constant"
          THEN [raises |-> FALSE,
                self |-> [base EXCEPT
                            !._current_a = kwargs.current_a,
                            !._duration_sec = duration,
                            !._segments =
                               <<[time_range |-> <<0, duration>>,
                                  current_a |-> kwargs.current_a]>>]]
        ELSE IF profile_type = "pulse"
          THEN IF kwargs.duty_cycle < 0 \/ kwargs.duty_cycle > 1000
                 THEN [raises |-> TRUE, self |-> base]
               ELSE [raises |-> FALSE,
                     self |-> [base EXCEPT
                                 !._current_high_a = kwargs.current_high_a,
                                 !._current_low_a = kwargs.current_low_a,
                                 !._period_sec = kwargs.period_sec,
                                 !._phase_sec = kwargs.phase_sec,
                                 !._duration_sec = duration,
                                 !._high_duration_sec =
                                    MulDiv(kwargs.period_sec,
                                           kwargs.duty_cycle, 1000)]]
        ELSE IF profile_type = "dynamic"
          THEN [raises |-> FALSE,
                self |-> [base EXCEPT !._dynamic_function = kwargs.function,
                                      !._duration_sec = duration]]
        ELSE [raises |-> TRUE, self |-> base]

\* _init_yaml with the data of the file: the segments are sorted by start
\* time (a stable sort) and checked for overlaps.
_init_yaml(self, yaml_data) ==
    LET segs == [k \in DOMAIN yaml_data[2] |->
                   [time_range |-> <<yaml_data[2][k][1], yaml_data[2][k][2]>>,
                    current_a |-> yaml_data[2][k][3]]]
        n == Len(segs)
        rank(i) == Cardinality({j \in 1 .. n :
                      \/ segs[j].time_range[1] < segs[i].time_range[1]
                      \/ /\ segs[j].time_range[1] = segs[i].time_range[1]
                         /\ j < i}) + 1
        sorted == [k \in 1 .. n |-> segs[CHOOSE i \in 1 .. n : rank(i) = k]]
    IN  [raises |-> \E i \in 1 .. n - 1 :
                       sorted[i].time_range[2] > sorted[i + 1].time_range[1],
         self |-> [self EXCEPT
                     !._duration_sec = IF yaml_data[1] = NoneF
                                         THEN 0 ELSE yaml_data[1],
                     !._segments = sorted]]

get_current_at_time(self, t_sec) ==
    LET t_relative == (t_sec + self._phase_sec) % self._period_sec
        tenth == self._period_sec \div 10
        width == IF self._transition_duration_sec < tenth
                   THEN self._transition_duration_sec ELSE tenth
        level == IF t_relative < self._high_duration_sec
                   THEN self._current_high_a ELSE self._current_low_a
        pulse == IF /\ self._smooth_transitions
                    /\ 2 * Abs(t_relative - self._high_duration_sec) < width
                   THEN self._current_high_a
                        + MulDiv(self._current_low_a - self._current_high_a,
                                 2 * (t_relative - self._high_duration_sec)
                                   + width, 2 * width)
                 ELSE level
        inside == {i \in 1 .. Len(self._segments) :
                     /\ self._segments[i].time_range[1] <= t_sec
                     /\ t_sec < self._segments[i].time_range[2]}
        i == CHOOSE k \in inside : \A j \in inside : k <= j
        prev_end == self._segments[i - 1].time_range[2]
        pos == Clip(MulDiv(t_sec - prev_end, 1000,
                           self._transition_duration_sec), 0, 1000)
        segment == IF /\ self._smooth_transitions
                      /\ i > 1
                      /\ t_sec < prev_end + self._transition_duration_sec
                     THEN MulDiv(self._segments[i - 1].current_a,
                                 1000 - pos, 1000)
                          + MulDiv(self._segments[i].current_a, pos, 1000)
                   ELSE self._segments[i].current_a
    IN  IF t_sec > self._duration_sec THEN 0
        ELSE IF self._profile_type = "constant" THEN self._current_a * 1000
        ELSE IF self._profile_type = "pulse" THEN pulse * 1000
        ELSE IF self._profile_type = "yaml"
          THEN IF inside = {} THEN 0 ELSE segment * 1000
        ELSE IF self._profile_type = "dynamic"
          THEN MulDiv(self._dynamic_function, t_sec, 1000) * 1000
        ELSE 0

\* A profile of each type, built from a file for the type yaml, with or
\* without smooth transitions, and nothing loaded or asked yet.
ProfileInit ==
    /\ NoAFE
    /\ NoPlant
    /\ tx = 0
    /\ frame = 0
    /\ \E profile_type \in {"constant", "pulse", "dynamic", "yaml"},
          smooth \in BOOLEAN :
          LET kwargs == [current_a |-> 10000, duration_sec |-> NoneF,
                         current_high_a |-> 20000,
                         current_low_a |-> 0 - 20000,
                         period_sec |-> 10000, duty_cycle |-> 500,
                         phase_sec |-> 0, function |-> 1000]
              made == CurrentProfile(profile_type, smooth, 1000, kwargs)
              file == <<5000, <<<<0, 5000, 5000>>>>>>
          IN  profile = [self |-> IF profile_type = "yaml"
                                    THEN _init_yaml(made.self, file).self
                                  ELSE made.self,
                         loaded |-> FALSE,
                         file |-> file,
                         asked |-> "none",
                         t_sec |-> 0,
                         ret |-> 0]

\* load_from_yaml(yaml_file), with one of the files of a sequence: the file
\* is loaded unless the call raises.
load_from_yaml(files) ==
    /\ \E k \in DOMAIN files :
          profile' = [profile EXCEPT
                        !.self = _init_yaml(profile.self, files[k]).self,
                        !.loaded = ~_init_yaml(profile.self, files[k]).raises,
                        !.file = files[k],
                        !.asked = "load_from_yaml"]
    /\ UNCHANGED <<afeVars, plantVars, tx, frame>>

GetCurrentAtTime(times) ==
    /\ \E t \in times :
          profile' = [profile EXCEPT
                        !.asked = "get_current_at_time",
                        !.t_sec = t,
                        !.ret = get_current_at_time(profile.self, t)]
    /\ UNCHANGED <<afeVars, plantVars, tx, frame>>

get_duration ==
    /\ profile' = [profile EXCEPT !.asked = "get_duration",
                                  !.ret = profile.self._duration_sec]
    /\ UNCHANGED <<afeVars, plantVars, tx, frame>>

\* The file has two segments given in the reverse order, or segments that
\* overlap, which load_from_yaml refuses.
NextProfile ==
    \/ load_from_yaml(
          <<<<20000, <<<<10000, 20000, 0 - 20000>>, <<0, 10000, 50000>>>>>>,
            <<20000, <<<<0, 10000, 50000>>, <<5000, 20000, 0 - 20000>>>>>>>>)
    \/ GetCurrentAtTime({0, 4900, 10000, 10500, 25000})
    \/ get_duration

SpecProfile == ProfileInit /\ [][NextProfile]_vars

\* C23: after load_from_yaml(file) the getters return what the file
\* defines, that is, what a profile of type yaml built from the file with
\* the same transition settings returns, whatever the type of the object.
C23_LoadedProfileFollowsFile ==
    LET made == CurrentProfile("yaml", profile.self._smooth_transitions,
                               profile.self._transition_duration_sec,
                               [duration_sec |-> NoneF])
        yaml == _init_yaml(made.self, profile.file).self
    IN  profile.loaded =>
          /\ profile.asked = "get_current_at_time"
               => profile.ret = get_current_at_time(yaml, profile.t_sec)
          /\ profile.asked = "get_duration"
               => profile.ret = yaml._duration_sec

====
